---- MODULE Spec2Model ----
(***************************************************************************)
(* A model of the response cache (src/src/cache.rs: CacheManager over an   *)
(* lru::LruCache with TTL, memory-pressure control and an optional durable *)
(* tier) and of the streaming session manager (src/src/streaming.rs:       *)
(* RateLimiter and StreamingManager with its producer tasks).              *)
(*                                                                         *)
(* Time is the integer variable now (one reading of Instant::now()); every *)
(* handler runs at one instant.  Option<T> is a sequence of length 0 or 1. *)
(***************************************************************************)
EXTENDS Integers, Sequences, FiniteSets, TLC

VARIABLES
    config,        \* CacheManager.config (CacheConfig), fixed at construction
    memory_cache,  \* CacheManager.memory_cache: <<[key, entry]>>, most recently used first
    stats,         \* CacheManager.stats (CacheStats)
    disk,          \* the cache directory: prompt_hash -> Option<PersistentCacheEntry>
    now,           \* the clock
    useOrder,      \* history: resident keys, most recently used (put or looked up fresh) first
    ev,            \* history: the last CacheManager call and what it returned
    calls,         \* history: the number of CacheManager calls made
    returned,      \* history: how many get calls returned a value, and how many none
    replay,        \* the replay tasks spawned by create_cached_stream, in call order
    rate_limiter,     \* StreamingManager.rate_limiter (RateLimiter)
    active_streams,   \* StreamingManager.active_streams: the registered ids
    next_stream_id,   \* StreamingManager.next_stream_id
    cancelled,        \* id -> whether the session's CancellationToken is cancelled
    prod,             \* id -> the producer task spawned by create_stream
    chan,             \* id -> the tokens sent on the session's channel, in order
    rxDropped,        \* id -> whether the caller has dropped the receiver
    issued,           \* history: the ids returned by create_stream, in call order
    hist,             \* history: the acquire and release calls made on the limiter directly
    sev               \* history: the step just taken, when it was a StreamingManager call

cacheVars == <<config, memory_cache, stats, disk, useOrder, ev, calls, returned, replay>>
streamVars == <<rate_limiter, active_streams, next_stream_id, cancelled, prod, chan,
                rxDropped, issued, hist, sev>>
vars == <<now, cacheVars, streamVars>>

----------------------------------------------------------------------------
(* Bounds of the model *)

MaxTime == 2        \* the clock stops advancing here while the cache or a limiter is used
MaxCalls == 4       \* CacheManager calls made in one behaviour
MaxStreamTime == 1  \* the same while sessions are streamed

----------------------------------------------------------------------------
(* Option<T> *)

None == <<>>
Some(x) == <<x>>
IsSome(o) == Len(o) = 1
Unwrap(o) == o[1]

Min(a, b) == IF a < b THEN a ELSE b

----------------------------------------------------------------------------
(* Keys, values, entries *)

\* The bytes a string feeds to a hasher, as one number per string.
Code(str) ==
    CASE str = "a" -> 97 [] str = "b" -> 98 [] str = "1" -> 49 [] str = "2" -> 50
      [] OTHER -> 0

\* Hasher state: 16 bits.
HashModulus == 65536
\* Hasher::write: the state absorbs the next piece of input.
Feed(h, x) == (h * 31 + x) % HashModulus
\* <String as Hash>::hash: the bytes, then the 0xff terminator.
HashStr(h, str) == Feed(Feed(h, Code(str)), 255)

\* serde_json::Value::to_string() of the parameter values used.
ToJsonString(v) == CASE v = 1 -> "1" [] v = 2 -> "2" [] OTHER -> ""

\* A parameter map in its iteration order: a sequence of [k, v] with distinct k.
\* sort_by_key(|(k, _)| *k): insertion of each pair before the first greater key.
RECURSIVE InsertByKey(_, _)
InsertByKey(sorted, pair) ==
    IF sorted = <<>> THEN <<pair>>
    ELSE IF Code(pair.k) < Code(Head(sorted).k) THEN <<pair>> \o sorted
    ELSE <<Head(sorted)>> \o InsertByKey(Tail(sorted), pair)

RECURSIVE SortByKey(_)
SortByKey(parameters) ==
    IF parameters = <<>> THEN <<>>
    ELSE InsertByKey(SortByKey(SubSeq(parameters, 1, Len(parameters) - 1)),
                     parameters[Len(parameters)])

\* The for loop of ParameterHash::new over pairs: key, then value.to_string().
RECURSIVE HashPairs(_, _)
HashPairs(h, pairs) ==
    IF pairs = <<>> THEN h
    ELSE HashPairs(HashStr(HashStr(h, Head(pairs).k), ToJsonString(Head(pairs).v)), Tail(pairs))

ParameterHashUnsorted(parameters) == HashPairs(0, parameters)
\* ParameterHash::new; the hash of the empty map is the hasher's initial state, 0.
ParameterHashNew(parameters) == HashPairs(0, SortByKey(parameters))

\* The first 8 bytes of the prompt's SHA-256, for the prompts used.
PromptHash(prompt) == CASE prompt = "p" -> 11 [] prompt = "q" -> 12 [] OTHER -> 0

\* CacheKey::new
CacheKeyNew(prompt, model, parameters) ==
    [prompt_hash |-> PromptHash(prompt), model |-> model,
     parameters |-> ParameterHashNew(parameters)]

\* CacheKey { prompt_hash, model, parameters }: two prompts under two models.
PromptHashes == {11, 12}
Models == {"a", "bb"}
AllKeys == [prompt_hash : PromptHashes, model : Models, parameters : {0}]
Keys == {k \in AllKeys : k.prompt_hash = 11 \/ k.model = "a"}

Values == {"x", "yyyy"}

\* ResponseMetadata of the calls (model and backend_type enter the size estimate).
TestMetadata == [model |-> "test-model", backend_type |-> "test"]

\* lru's default capacity when max_memory_entries is 0.
DefaultCapacity == 1000

\* The per-entry overhead of estimate_memory_usage.
EntryOverhead == 200

\* SystemTime::now() - Instant::now(): the wall clock reads now + EpochOffset
\* seconds since UNIX_EPOCH.
EpochOffset == 1000

NewEntry(value, t, meta, streaming, tokens) ==
    [response |-> value, created_at |-> t, access_count |-> 1, metadata |-> meta,
     is_streaming |-> streaming, stream_tokens |-> tokens]

\* entry.created_at.elapsed() at time t.
Elapsed(entry, t) == t - entry.created_at

ExpiredAtTtl(entry, t, cfg) == Elapsed(entry, t) >= cfg.ttl
\* entry.created_at.elapsed() > self.config.ttl
Expired(entry, t, cfg) == Elapsed(entry, t) > cfg.ttl

----------------------------------------------------------------------------
(* lru::LruCache: a list of (key, entry), most recently used at the head *)

KeysOf(c) == {c[i].key : i \in 1..Len(c)}
Idx(c, k) == IF k \in KeysOf(c) THEN CHOOSE i \in 1..Len(c) : c[i].key = k ELSE 0
Contains(c, k) == k \in KeysOf(c)
Peek(c, k) == c[Idx(c, k)].entry

\* LruCache::pop(k)
Pop(c, k) == SelectSeq(c, LAMBDA p : p.key # k)

GetMutInPlace(c, k) == c
\* LruCache::get_mut(k) on a resident key: the node moves to the head.
get_mut(c, k) == <<c[Idx(c, k)]>> \o Pop(c, k)

\* NonZeroUsize::new(max_memory_entries).unwrap_or(1000)
Capacity(cfg) == IF cfg.max_memory_entries = 0 THEN DefaultCapacity ELSE cfg.max_memory_entries

PushKeepsResident(c, cap, k, e) ==
    IF Contains(c, k)
    THEN [cache |-> get_mut(c, k), old |-> Some([key |-> k, entry |-> e])]
    ELSE IF Len(c) >= cap
    THEN [cache |-> <<[key |-> k, entry |-> e]>> \o SubSeq(c, 1, Len(c) - 1),
          old |-> Some(c[Len(c)])]
    ELSE [cache |-> <<[key |-> k, entry |-> e]>> \o c, old |-> None]
\* LruCache::push(k, e): replaces the value of a resident key, or removes the
\* least recently used entry of a full cache; returns the pair it replaced.
Push(c, cap, k, e) ==
    IF Contains(c, k)
    THEN [cache |-> <<[key |-> k, entry |-> e]>> \o Pop(c, k),
          old |-> Some([key |-> k, entry |-> Peek(c, k)])]
    ELSE IF Len(c) >= cap
    THEN [cache |-> <<[key |-> k, entry |-> e]>> \o SubSeq(c, 1, Len(c) - 1),
          old |-> Some(c[Len(c)])]
    ELSE [cache |-> <<[key |-> k, entry |-> e]>> \o c, old |-> None]

LruPutUnbounded(c, cap, k, e) ==
    <<[key |-> k, entry |-> e]>> \o (IF Contains(c, k) THEN Pop(c, k) ELSE c)
\* LruCache::put(k, e): as push, without returning an evicted pair.
LruPut(c, cap, k, e) == Push(c, cap, k, e).cache

\* LruCache::pop_lru() on a non-empty cache: the tail.
PopLru(c) == [cache |-> SubSeq(c, 1, Len(c) - 1), old |-> c[Len(c)]]

----------------------------------------------------------------------------
(* CacheManager helpers *)

RECURSIVE SumSizes(_, _)
SumSizes(c, i) ==
    IF i > Len(c) THEN 0
    ELSE Len(c[i].key.model) + Len(c[i].entry.response)
         + Len(c[i].entry.metadata.model) + Len(c[i].entry.metadata.backend_type)
         + EntryOverhead + SumSizes(c, i + 1)

estimate_memory_usage(c) == SumSizes(c, 1)

\* One call in flight: the cache, the counters, the directory, the number of
\* file writes attempted so far, and whether a ? has returned an error.
Mach(c, s, d) == [cache |-> c, stats |-> s, disk |-> d, nw |-> 0, err |-> FALSE]

update_stats(m) ==
    [m EXCEPT !.stats.total_entries = Len(m.cache),
              !.stats.memory_usage_bytes = estimate_memory_usage(m.cache)]

\* PersistentCacheEntry::from(&CacheEntry) at time t: created_at becomes the wall
\* clock reading SystemTime::now() - created_at.elapsed().
ToPersistent(entry, t) ==
    [response |-> entry.response,
     created_at |-> (t + EpochOffset) - Elapsed(entry, t),
     access_count |-> entry.access_count, metadata |-> entry.metadata,
     is_streaming |-> entry.is_streaming, stream_tokens |-> entry.stream_tokens]

\* CacheEntry::from(PersistentCacheEntry) at time t: created_at becomes
\* Instant::now() - created_at.duration_since(UNIX_EPOCH).
FromPersistent(p, t) ==
    [response |-> p.response,
     created_at |-> IF p.created_at >= 0 THEN t - p.created_at ELSE t,
     access_count |-> p.access_count, metadata |-> p.metadata,
     is_streaming |-> p.is_streaming, stream_tokens |-> p.stream_tokens]

\* save_to_disk: fails when no directory is configured or when this write is the
\* failAt-th of the call (the file system refuses it); otherwise the file named
\* by the prompt hash is replaced and disk_writes grows.
save_to_disk(m, key, entry, cfg, t, failAt) ==
    IF ~cfg.cache_dir THEN [m EXCEPT !.err = TRUE]
    ELSE IF m.nw + 1 = failAt THEN [m EXCEPT !.nw = @ + 1, !.err = TRUE]
    ELSE [m EXCEPT !.nw = @ + 1,
                   !.disk[key.prompt_hash] = Some(ToPersistent(entry, t)),
                   !.stats.disk_writes = @ + 1]

\* load_from_disk_by_key: Ok(Some(entry)) or not (no directory, no file).
load_from_disk_by_key(d, key, cfg, t) ==
    IF ~cfg.cache_dir THEN None
    ELSE IF d[key.prompt_hash] = None THEN None
    ELSE Some(FromPersistent(Unwrap(d[key.prompt_hash]), t))

\* The while loop of handle_memory_pressure.
RECURSIVE PressureLoop(_, _, _, _, _)
PressureLoop(m, target, cfg, t, failAt) ==
    IF m.err \/ Len(m.cache) <= target THEN m
    ELSE LET r == PopLru(m.cache)
             m1 == [m EXCEPT !.cache = r.cache, !.stats.evictions = @ + 1]
             m2 == IF cfg.enable_persistence
                   THEN save_to_disk(m1, r.old.key, r.old.entry, cfg, t, failAt)
                   ELSE m1
         IN PressureLoop(m2, target, cfg, t, failAt)

\* (max_bytes as f64 * memory_pressure_threshold) as usize, the threshold a ratio.
PressureThreshold(cfg) ==
    (Unwrap(cfg.max_memory_bytes) * cfg.memory_pressure_threshold.num)
        \div cfg.memory_pressure_threshold.den

UnderPressure(c, cfg) ==
    /\ IsSome(cfg.max_memory_bytes)
    /\ estimate_memory_usage(c) > PressureThreshold(cfg)

PressureTargetRoundedUp(c) == (Len(c) * 3 + 3) \div 4
\* (len as f64 * 0.75) as usize
PressureTarget(c) == (Len(c) * 3) \div 4

handle_memory_pressure(m, cfg, t, failAt) ==
    IF UnderPressure(m.cache, cfg)
    THEN LET m1 == PressureLoop(m, PressureTarget(m.cache), cfg, t, failAt)
         IN IF m1.err THEN m1 ELSE update_stats(m1)
    ELSE m

\* The body of put and put_streaming after the entry is built.
InsertEntry(m0, key, entry, cfg, t, failAt) ==
    LET m1 == handle_memory_pressure(m0, cfg, t, failAt)
        r  == Push(m1.cache, Capacity(cfg), key, entry)
        m2 == [m1 EXCEPT !.cache = r.cache]
        m3 == IF IsSome(r.old)
              THEN LET m2e == [m2 EXCEPT !.stats.evictions = @ + 1]
                   IN IF cfg.enable_persistence
                      THEN save_to_disk(m2e, Unwrap(r.old).key, Unwrap(r.old).entry, cfg, t, failAt)
                      ELSE m2e
              ELSE m2
        m4 == IF cfg.enable_persistence THEN save_to_disk(m3, key, entry, cfg, t, failAt) ELSE m3
    IN IF m1.err THEN m1
       ELSE IF m3.err THEN m3
       ELSE IF m4.err THEN m4
       ELSE update_stats(m4)

\* CacheManager::put
put(m0, key, value, meta, cfg, t, failAt) ==
    InsertEntry(m0, key, NewEntry(value, t, meta, FALSE, None), cfg, t, failAt)

GetExpiredCountsBoth(c, s, key) ==
    [cache |-> Pop(c, key), stats |-> [s EXCEPT !.hits = @ + 1, !.misses = @ + 1], ret |-> None]
\* get, the resident entry is past its TTL: it is removed and a miss is counted.
GetExpired(c, s, key) ==
    [cache |-> Pop(c, key), stats |-> [s EXCEPT !.misses = @ + 1], ret |-> None]

\* get, the resident entry is fresh: a hit.
GetHit(c, s, key) ==
    [cache |-> [c EXCEPT ![Idx(c, key)].entry.access_count = @ + 1],
     stats |-> [s EXCEPT !.hits = @ + 1],
     ret |-> Some(Peek(c, key).response)]

\* get, the key is not resident: the durable tier when enabled, else a miss.
GetAbsent(c, s, d, key, cfg, t) ==
    LET l == IF cfg.enable_persistence THEN load_from_disk_by_key(d, key, cfg, t) ELSE None
    IN IF IsSome(l) /\ Elapsed(Unwrap(l), t) <= cfg.ttl
       THEN [cache |-> LruPut(c, Capacity(cfg), key, [Unwrap(l) EXCEPT !.access_count = @ + 1]),
             stats |-> [s EXCEPT !.hits = @ + 1, !.disk_reads = @ + 1],
             ret |-> Some(Unwrap(l).response)]
       ELSE [cache |-> c, stats |-> [s EXCEPT !.misses = @ + 1], ret |-> None]

\* CacheManager::get: [cache, stats, ret]
get(c, s, d, key, cfg, t) ==
    IF Contains(c, key)
    THEN LET c1 == get_mut(c, key)
         IN IF Expired(Peek(c1, key), t, cfg) THEN GetExpired(c1, s, key)
            ELSE GetHit(c1, s, key)
    ELSE GetAbsent(c, s, d, key, cfg, t)

\* The while loop of reduce_cache_size: pop_lru and count, nothing is saved.
RECURSIVE ReduceLoop(_, _)
ReduceLoop(m, target) ==
    IF Len(m.cache) <= target THEN m
    ELSE ReduceLoop([m EXCEPT !.cache = PopLru(m.cache).cache, !.stats.evictions = @ + 1],
                    target)

\* CacheManager::reduce_cache_size, target_ratio a ratio of naturals:
\* (len as f64 * target_ratio) as usize.
reduce_cache_size(m, ratio) ==
    update_stats(ReduceLoop(m, (Len(m.cache) * ratio.num) \div ratio.den))

\* CacheManager::invalidate_model: the keys of the model are collected and popped.
invalidate_model(m, model) ==
    update_stats([m EXCEPT !.cache = SelectSeq(m.cache, LAMBDA x : x.key.model # model)])

InvalidateWholeModel(m, model, target_param_hash) ==
    update_stats([m EXCEPT !.cache = SelectSeq(m.cache, LAMBDA x : x.key.model # model)])
\* CacheManager::invalidate_by_parameters, the parameter map already hashed.
invalidate_by_parameters(m, model, target_param_hash) ==
    update_stats([m EXCEPT !.cache =
                     SelectSeq(m.cache,
                               LAMBDA x : ~(x.key.model = model
                                            /\ x.key.parameters = target_param_hash))])

InvalidateAtTtl(m, cfg, t) ==
    update_stats([m EXCEPT !.cache =
                     SelectSeq(m.cache, LAMBDA x : ~(Elapsed(x.entry, t) >= cfg.ttl))])
\* CacheManager::invalidate_expired
invalidate_expired(m, cfg, t) ==
    update_stats([m EXCEPT !.cache =
                     SelectSeq(m.cache, LAMBDA x : ~(Elapsed(x.entry, t) > cfg.ttl))])

ClearResetsCounters(m) ==
    [m EXCEPT !.cache = <<>>,
              !.stats = [total_entries |-> 0, memory_usage_bytes |-> 0, disk_writes |-> 0,
                         evictions |-> 0, hits |-> 0, misses |-> 0, disk_reads |-> 0]]
\* CacheManager::clear
clear(m) ==
    [m EXCEPT !.cache = <<>>, !.stats.total_entries = 0, !.stats.memory_usage_bytes = 0]

\* The for loop of warm_cache over the keys from the i-th on.
RECURSIVE WarmLoop(_, _, _, _, _)
WarmLoop(m, keys, i, cfg, t) ==
    IF i > Len(keys) THEN m
    ELSE LET key == keys[i]
             l == IF Contains(m.cache, key) THEN None
                  ELSE load_from_disk_by_key(m.disk, key, cfg, t)
             m1 == IF IsSome(l) /\ Elapsed(Unwrap(l), t) <= cfg.ttl
                   THEN [m EXCEPT !.cache = LruPut(m.cache, Capacity(cfg), key, Unwrap(l)),
                                  !.stats.disk_reads = @ + 1]
                   ELSE m
         IN WarmLoop(m1, keys, i + 1, cfg, t)

\* CacheManager::warm_cache
warm_cache(m, keys, cfg, t) ==
    IF ~cfg.enable_persistence THEN m ELSE update_stats(WarmLoop(m, keys, 1, cfg, t))

----------------------------------------------------------------------------
(* Cached token sequences *)

\* StreamToken { content, is_complete }
Token(content, done) == [content |-> content, is_complete |-> done]

\* tokens.iter().map(|token| token.content.as_str()).collect().join("")
RECURSIVE Join(_)
Join(tokens) == IF tokens = <<>> THEN "" ELSE tokens[1].content \o Join(Tail(tokens))

PutStreamingAlways(m0, key, tokens, meta, cfg, t, failAt) ==
    InsertEntry(m0, key, NewEntry(Join(tokens), t, meta, TRUE, Some(tokens)), cfg, t, failAt)
\* CacheManager::put_streaming
put_streaming(m0, key, tokens, meta, cfg, t, failAt) ==
    IF ~cfg.cache_streaming THEN m0
    ELSE InsertEntry(m0, key, NewEntry(Join(tokens), t, meta, TRUE, Some(tokens)), cfg, t, failAt)

\* get_streaming past the resident entry: the durable tier when enabled, else a
\* miss.
GetStreamingAbsent(c, s, d, key, cfg, t) ==
    LET l == IF cfg.enable_persistence THEN load_from_disk_by_key(d, key, cfg, t) ELSE None
    IN IF IsSome(l) /\ Elapsed(Unwrap(l), t) <= cfg.ttl /\ Unwrap(l).is_streaming
       THEN [cache |-> LruPut(c, Capacity(cfg), key, [Unwrap(l) EXCEPT !.access_count = @ + 1]),
             stats |-> [s EXCEPT !.hits = @ + 1, !.disk_reads = @ + 1],
             ret |-> Unwrap(l).stream_tokens]
       ELSE [cache |-> c, stats |-> [s EXCEPT !.misses = @ + 1], ret |-> None]

\* CacheManager::get_streaming: [cache, stats, ret], ret an Option of tokens
get_streaming(c, s, d, key, cfg, t) ==
    IF Contains(c, key)
    THEN LET c1 == get_mut(c, key)
             c2 == [c1 EXCEPT ![Idx(c1, key)].entry.access_count = @ + 1]
             s2 == [s EXCEPT !.hits = @ + 1]
         IN IF Expired(Peek(c1, key), t, cfg) THEN GetExpired(c1, s, key)
            ELSE IF Peek(c1, key).is_streaming
            THEN [cache |-> c2, stats |-> s2, ret |-> Peek(c1, key).stream_tokens]
            ELSE GetStreamingAbsent(c2, s2, d, key, cfg, t)
    ELSE GetStreamingAbsent(c, s, d, key, cfg, t)

\* The task create_cached_stream spawns over the tokens, with the id its
\* StreamResponse carries, the tokens sent so far and the caller's two handles.
NewReplay(id, tokens) ==
    [id |-> id, pc |-> "running", tokens |-> tokens, rest |-> tokens, sent |-> <<>>,
     cancelled |-> FALSE, dropped |-> FALSE]

CreateCachedStreamFirstId(c, s, d, key, stream_id, cfg, t) ==
    LET g == get_streaming(c, s, d, key, cfg, t)
    IN [cache |-> g.cache, stats |-> g.stats,
        ret |-> IF IsSome(g.ret) THEN Some(NewReplay(1, Unwrap(g.ret))) ELSE None]
\* CacheManager::create_cached_stream up to the spawn: [cache, stats, ret], ret
\* an Option of the task spawned
create_cached_stream(c, s, d, key, stream_id, cfg, t) ==
    LET g == get_streaming(c, s, d, key, cfg, t)
    IN [cache |-> g.cache, stats |-> g.stats,
        ret |-> IF IsSome(g.ret) THEN Some(NewReplay(stream_id, Unwrap(g.ret))) ELSE None]

ReplayNewestFirst(r) ==
    IF r.rest = <<>> \/ r.cancelled \/ r.dropped THEN [r EXCEPT !.pc = "exited"]
    ELSE [r EXCEPT !.sent = <<Head(r.rest)>> \o @, !.rest = Tail(@)]
\* One iteration of the replay task's for loop, or its end.
ReplayIteration(r) ==
    IF r.rest = <<>> \/ r.cancelled \/ r.dropped THEN [r EXCEPT !.pc = "exited"]
    ELSE [r EXCEPT !.sent = Append(@, Head(r.rest)), !.rest = Tail(@)]

----------------------------------------------------------------------------
(* History: the order of use, kept apart from the lru list *)

Without(seq, k) == SelectSeq(seq, LAMBDA x : x # k)
\* The use order after a call that leaves `resident` in memory and used `used`
\* (a set of at most one key).
NextUseOrder(order, used, resident) ==
    LET touched == IF used = {} THEN order
                   ELSE <<CHOOSE k \in used : TRUE>> \o Without(order, CHOOSE k \in used : TRUE)
    IN SelectSeq(touched, LAMBDA k : k \in resident)

LeastRecentlyUsed(order) == order[Len(order)]

NoEvent == [op |-> "none"]
NoCall == [op |-> "none"]

\* Time passes.
TimePasses(limit) ==
    /\ now < limit
    /\ now' = now + 1
    /\ sev' = NoCall
    /\ UNCHANGED <<cacheVars, rate_limiter, active_streams, next_stream_id, cancelled, prod,
                   chan, rxDropped, issued, hist>>

Tick == TimePasses(MaxTime)
StreamTick == TimePasses(MaxStreamTime)

----------------------------------------------------------------------------
(* RateLimiter *)

\* Token counts (f64 in the code) are kept in units of 1/TokenUnit token, and the
\* clock ticks TicksPerSecond times a second.
TokenUnit == 4
TicksPerSecond == 2

\* RateLimiter::new(max_concurrent, requests_per_second) at time t
RateLimiterNew(max_concurrent, requests_per_second, t) ==
    [max_concurrent |-> max_concurrent, current_count |-> 0,
     tokens |-> requests_per_second, max_tokens |-> requests_per_second,
     refill_rate |-> requests_per_second, last_refill |-> t]

RefillUncapped(rl, t) ==
    LET elapsed == t - rl.last_refill
    IN IF elapsed > 0
       THEN [rl EXCEPT !.tokens = @ + (elapsed * rl.refill_rate) \div TicksPerSecond,
                       !.last_refill = t]
       ELSE rl
\* RateLimiter::refill_tokens at time t
refill_tokens(rl, t) ==
    LET elapsed == t - rl.last_refill
    IN IF elapsed > 0
       THEN [rl EXCEPT !.tokens = Min(@ + (elapsed * rl.refill_rate) \div TicksPerSecond,
                                      rl.max_tokens),
                       !.last_refill = t]
       ELSE rl

\* The condition of RateLimiter::can_proceed, after the refill.
HasSlotAndToken(rl) == rl.current_count < rl.max_concurrent /\ rl.tokens >= TokenUnit

AcquireSpendsFirst(rl, t) ==
    LET r == refill_tokens(rl, t)
    IN IF r.tokens >= TokenUnit
       THEN IF r.current_count < r.max_concurrent
            THEN [rl |-> [r EXCEPT !.current_count = @ + 1, !.tokens = @ - TokenUnit], ok |-> TRUE]
            ELSE [rl |-> [r EXCEPT !.tokens = @ - TokenUnit], ok |-> FALSE]
       ELSE [rl |-> r, ok |-> FALSE]
\* RateLimiter::acquire at time t: [rl, ok]
acquire(rl, t) ==
    LET r == refill_tokens(rl, t)
    IN IF HasSlotAndToken(r)
       THEN [rl |-> [r EXCEPT !.current_count = @ + 1, !.tokens = @ - TokenUnit], ok |-> TRUE]
       ELSE [rl |-> r, ok |-> FALSE]

ReleaseKeepsSlot(rl) == rl
ReleaseRestoresToken(rl) ==
    IF rl.current_count > 0
    THEN [rl EXCEPT !.current_count = @ - 1, !.tokens = Min(@ + TokenUnit, rl.max_tokens)]
    ELSE rl
\* RateLimiter::release
release(rl) ==
    IF rl.current_count > 0 THEN [rl EXCEPT !.current_count = @ - 1] ELSE rl

----------------------------------------------------------------------------
(* StreamingManager *)

MaxStreams == 2      \* create_stream is no longer called once this many ids were issued
MaxChunks == 1       \* body chunks one response delivers
MaxHist == 5         \* acquire and release calls made on a limiter directly

\* max_retries passed by stream_chat, and the first backoff delay in milliseconds.
MaxRetries == 3
BaseDelayMs == 100

StreamIds == 1..MaxStreams

\* A producer task: where it stands (pc), the locals attempt and delay of
\* send_request_with_retry, the lines of the current chunk still to process, the
\* value stream_chat returned, and its history: the chunks read, what each
\* request yielded, the backoff delays slept, the lines the body delivered, the
\* sends that failed and the tokens sent while the cancellation flag was set.
NoProducer == [pc |-> "none", attempt |-> 0, delay |-> 0, chunks |-> 0, pending |-> <<>>,
               result |-> "none", outcomes |-> <<>>, slept |-> <<>>, received |-> <<>>,
               failedSends |-> 0, lateSends |-> 0, bytes |-> 0, timeouts |-> 0]
\* The task spawned by create_stream, about to send its first request.
NewProducer == [NoProducer EXCEPT !.pc = "request", !.delay = BaseDelayMs]

CreateReusesFreedId(active, rl, next, t) ==
    LET a == acquire(rl, t)
        id == IF active = {} THEN 1 ELSE 1 + CHOOSE m \in active : \A x \in active : x <= m
    IN IF ~a.ok THEN [ok |-> FALSE, id |-> 0, active |-> active, rl |-> a.rl, next |-> next]
       ELSE [ok |-> TRUE, id |-> id, active |-> active \cup {id}, rl |-> a.rl, next |-> id + 1]
\* StreamingManager::create_stream at time t, up to the spawn:
\* [ok, id, active, rl, next]
create_stream(active, rl, next, t) ==
    LET a == acquire(rl, t)
    IN IF ~a.ok THEN [ok |-> FALSE, id |-> 0, active |-> active, rl |-> a.rl, next |-> next]
       ELSE [ok |-> TRUE, id |-> next, active |-> active \cup {next}, rl |-> a.rl,
             next |-> next + 1]

CancelAllStreams(active, rl, canc, id) ==
    IF id \in active
    THEN [ok |-> TRUE, active |-> {}, rl |-> release(rl),
          cancelled |-> [i \in DOMAIN canc |-> canc[i] \/ i \in active]]
    ELSE [ok |-> FALSE, active |-> active, rl |-> rl, cancelled |-> canc]
CancelReleasesAlways(active, rl, canc, id) ==
    IF id \in active
    THEN [ok |-> TRUE, active |-> active \ {id}, rl |-> release(rl),
          cancelled |-> [canc EXCEPT ![id] = TRUE]]
    ELSE [ok |-> FALSE, active |-> active, rl |-> release(rl), cancelled |-> canc]
CancelTogglesFlag(active, rl, canc, id) ==
    IF id \in active
    THEN [ok |-> TRUE, active |-> active \ {id}, rl |-> release(rl),
          cancelled |-> [canc EXCEPT ![id] = ~@]]
    ELSE [ok |-> FALSE, active |-> active, rl |-> rl, cancelled |-> canc]
\* StreamingManager::cancel_stream(id): [ok, active, rl, cancelled]
cancel_stream(active, rl, canc, id) ==
    IF id \in active
    THEN [ok |-> TRUE, active |-> active \ {id}, rl |-> release(rl),
          cancelled |-> [canc EXCEPT ![id] = TRUE]]
    ELSE [ok |-> FALSE, active |-> active, rl |-> rl, cancelled |-> canc]

\* The manager's state as a call finds it.
Snapshot ==
    [active |-> active_streams, rl |-> rate_limiter, next |-> next_stream_id,
     cancelled |-> cancelled, started |-> {i \in StreamIds : prod[i].pc # "none"},
     exited |-> {i \in StreamIds : prod[i].pc = "exited"}]

\* StreamingManager::new(max_concurrent) with the given requests_per_second.
StreamConfigs == {[max_concurrent |-> 1, rps |-> 10], [max_concurrent |-> 2, rps |-> 10]}
\* RateLimiter::new over caps 1 and 2 and rates of 1, 2.5 and 3 tokens a second.
LimiterConfigs == [max_concurrent : {1, 2}, rps : {4, 10, 12}]

InitStreamWith(configs) ==
    /\ \E c \in configs : rate_limiter = RateLimiterNew(c.max_concurrent, c.rps, 0)
    /\ active_streams = {}
    /\ next_stream_id = 1
    /\ cancelled = [i \in StreamIds |-> FALSE]
    /\ prod = [i \in StreamIds |-> NoProducer]
    /\ chan = [i \in StreamIds |-> <<>>]
    /\ rxDropped = [i \in StreamIds |-> FALSE]
    /\ issued = <<>>
    /\ hist = <<>>
    /\ sev = NoCall

CreateStream ==
    /\ LET r == create_stream(active_streams, rate_limiter, next_stream_id, now)
       IN /\ r.ok => r.id \in StreamIds
          /\ rate_limiter' = r.rl
          /\ active_streams' = r.active
          /\ next_stream_id' = r.next
          /\ prod' = IF r.ok THEN [prod EXCEPT ![r.id] = NewProducer] ELSE prod
          /\ issued' = IF r.ok THEN Append(issued, r.id) ELSE issued
          /\ sev' = [op |-> "create_stream", ret |-> IF r.ok THEN "Ok" ELSE "RateLimit",
                     id |-> r.id, at |-> now, pre |-> Snapshot]
    /\ UNCHANGED <<now, cacheVars, cancelled, chan, rxDropped, hist>>

CancelStream(id) ==
    /\ LET r == cancel_stream(active_streams, rate_limiter, cancelled, id)
       IN /\ rate_limiter' = r.rl
          /\ active_streams' = r.active
          /\ cancelled' = r.cancelled
          /\ sev' = [op |-> "cancel_stream", ret |-> IF r.ok THEN "Ok" ELSE "StreamNotFound",
                     id |-> id, at |-> now, pre |-> Snapshot]
    /\ UNCHANGED <<now, cacheVars, next_stream_id, prod, chan, rxDropped, issued, hist>>

Cancel == \E id \in StreamIds : CancelStream(id)

\* The caller cancels through the token of the StreamResponse it was handed:
\* CancellationToken::cancel sets the flag and returns nothing.
TokenCancel(id) ==
    /\ \E i \in 1..Len(issued) : issued[i] = id
    /\ cancelled' = [cancelled EXCEPT ![id] = TRUE]
    /\ sev' = [op |-> "token_cancel", ret |-> "Ok", id |-> id, at |-> now, pre |-> Snapshot]
    /\ UNCHANGED <<now, cacheVars, rate_limiter, active_streams, next_stream_id, prod, chan,
                   rxDropped, issued, hist>>

CallerCancel == \E id \in StreamIds : TokenCancel(id)

----------------------------------------------------------------------------
(* The producer task: stream_chat and send_request_with_retry *)

\* What one send().await of the request yields.
Outcomes == {"success", "server_error", "client_error", "transport_error"}

\* One iteration of the loop of send_request_with_retry.
RetryOnceMore(p, outcome) ==
    IF outcome = "success" THEN [p EXCEPT !.pc = "body", !.outcomes = Append(@, outcome)]
    ELSE IF outcome \in {"server_error", "transport_error"} /\ p.attempt <= MaxRetries
    THEN [p EXCEPT !.attempt = @ + 1, !.slept = Append(@, p.delay), !.delay = @ * 2,
                   !.outcomes = Append(@, outcome)]
    ELSE [p EXCEPT !.pc = "exited", !.outcomes = Append(@, outcome),
                   !.result = IF outcome = "transport_error" THEN "Http" ELSE "Connection"]
UseFailedResponse(p, outcome) ==
    IF outcome = "success" THEN [p EXCEPT !.pc = "body", !.outcomes = Append(@, outcome)]
    ELSE IF outcome \in {"server_error", "transport_error"} /\ p.attempt < MaxRetries
    THEN [p EXCEPT !.attempt = @ + 1, !.slept = Append(@, p.delay), !.delay = @ * 2,
                   !.outcomes = Append(@, outcome)]
    ELSE [p EXCEPT !.pc = "body", !.outcomes = Append(@, outcome)]
RetryEveryFailure(p, outcome) ==
    IF outcome = "success" THEN [p EXCEPT !.pc = "body", !.outcomes = Append(@, outcome)]
    ELSE IF p.attempt < MaxRetries
    THEN [p EXCEPT !.attempt = @ + 1, !.slept = Append(@, p.delay), !.delay = @ * 2,
                   !.outcomes = Append(@, outcome)]
    ELSE [p EXCEPT !.pc = "exited", !.outcomes = Append(@, outcome),
                   !.result = IF outcome = "transport_error" THEN "Http" ELSE "Connection"]
RequestStep(p, outcome) ==
    IF outcome = "success" THEN [p EXCEPT !.pc = "body", !.outcomes = Append(@, outcome)]
    ELSE IF outcome \in {"server_error", "transport_error"} /\ p.attempt < MaxRetries
    THEN [p EXCEPT !.attempt = @ + 1, !.slept = Append(@, p.delay), !.delay = @ * 2,
                   !.outcomes = Append(@, outcome)]
    ELSE [p EXCEPT !.pc = "exited", !.outcomes = Append(@, outcome),
                   !.result = IF outcome = "transport_error" THEN "Http" ELSE "Connection"]

\* A line of the body: blank, not JSON, or a JSON record with or without
\* message.content and with its done flag.
Line(kind, content, done) == [kind |-> kind, content |-> content, done |-> done]
Record(content, done) == Line("json", Some(content), done)

\* stream.next() yielded a chunk: the cancellation check, then its lines.
ChunkStep(p, isCancelled, chunk) ==
    IF isCancelled THEN [p EXCEPT !.pc = "exited", !.result = "Ok"]
    ELSE IF chunk = <<>> THEN [p EXCEPT !.chunks = @ + 1]
    ELSE [p EXCEPT !.pc = "lines", !.pending = chunk, !.chunks = @ + 1,
                   !.received = @ \o chunk]

SendNewestFirst(p, ch, dropped) ==
    LET line == Head(p.pending)
        rest == Tail(p.pending)
        continue == IF rest = <<>> THEN [p EXCEPT !.pc = "body", !.pending = <<>>]
                    ELSE [p EXCEPT !.pending = rest]
        break == [p EXCEPT !.pc = "body", !.pending = <<>>]
    IN IF line.kind # "json" \/ line.content = None THEN [p |-> continue, chan |-> ch]
       ELSE IF dropped THEN [p |-> [break EXCEPT !.failedSends = @ + 1], chan |-> ch]
       ELSE [p |-> IF line.done THEN break ELSE continue,
             chan |-> <<[content |-> Unwrap(line.content), is_complete |-> line.done]>> \o ch]
InvalidLineEndsChunk(p, ch, dropped) ==
    LET line == Head(p.pending)
        rest == Tail(p.pending)
        continue == IF rest = <<>> THEN [p EXCEPT !.pc = "body", !.pending = <<>>]
                    ELSE [p EXCEPT !.pending = rest]
        break == [p EXCEPT !.pc = "body", !.pending = <<>>]
    IN IF line.kind = "blank" THEN [p |-> continue, chan |-> ch]
       ELSE IF line.kind # "json" \/ line.content = None THEN [p |-> break, chan |-> ch]
       ELSE IF dropped THEN [p |-> [break EXCEPT !.failedSends = @ + 1], chan |-> ch]
       ELSE [p |-> IF line.done THEN break ELSE continue,
             chan |-> Append(ch, [content |-> Unwrap(line.content), is_complete |-> line.done])]
\* One iteration of the for loop over the lines of the chunk: [p, chan]
LineStep(p, ch, dropped) ==
    LET line == Head(p.pending)
        rest == Tail(p.pending)
        continue == IF rest = <<>> THEN [p EXCEPT !.pc = "body", !.pending = <<>>]
                    ELSE [p EXCEPT !.pending = rest]
        break == [p EXCEPT !.pc = "body", !.pending = <<>>]
    IN IF line.kind # "json" \/ line.content = None THEN [p |-> continue, chan |-> ch]
       ELSE IF dropped THEN [p |-> [break EXCEPT !.failedSends = @ + 1], chan |-> ch]
       ELSE [p |-> IF line.done THEN break ELSE continue,
             chan |-> Append(ch, [content |-> Unwrap(line.content), is_complete |-> line.done])]

ProducerRequest(id, outcome) ==
    /\ prod[id].pc = "request"
    /\ prod' = [prod EXCEPT ![id] = RequestStep(@, outcome)]
    /\ sev' = NoCall
    /\ UNCHANGED <<now, cacheVars, rate_limiter, active_streams, next_stream_id, cancelled,
                   chan, rxDropped, issued, hist>>

ProducerChunkUpTo(id, chunk, limit) ==
    /\ prod[id].pc = "body"
    /\ prod[id].chunks < limit
    /\ prod' = [prod EXCEPT ![id] = ChunkStep(@, cancelled[id], chunk)]
    /\ sev' = NoCall
    /\ UNCHANGED <<now, cacheVars, rate_limiter, active_streams, next_stream_id, cancelled,
                   chan, rxDropped, issued, hist>>

ProducerChunk(id, chunk) == ProducerChunkUpTo(id, chunk, MaxChunks)

ProducerLine(id) ==
    /\ prod[id].pc = "lines"
    /\ LET r == LineStep(prod[id], chan[id], rxDropped[id])
           late == IF cancelled[id] /\ r.chan # chan[id] THEN 1 ELSE 0
       IN /\ prod' = [prod EXCEPT ![id] = [r.p EXCEPT !.lateSends = @ + late]]
          /\ chan' = [chan EXCEPT ![id] = r.chan]
    /\ sev' = NoCall
    /\ UNCHANGED <<now, cacheVars, rate_limiter, active_streams, next_stream_id, cancelled,
                   rxDropped, issued, hist>>

\* The text of a body: each record is written in two pieces followed by a line
\* feed, and a network chunk is any run of consecutive pieces and line feeds.
Piece(r, h) == [r |-> r, h |-> h]
LineFeed == Piece(0, 0)
RECURSIVE BodyText(_, _)
BodyText(first, last) ==
    IF first > last THEN <<>>
    ELSE <<Piece(first, 1), Piece(first, 2), LineFeed>> \o BodyText(first + 1, last)

\* str::lines() of a chunk: the runs between line feeds, a final empty run left out.
RECURSIVE SplitLines(_, _)
SplitLines(text, cur) ==
    IF text = <<>> THEN (IF cur = <<>> THEN <<>> ELSE <<cur>>)
    ELSE IF Head(text) = LineFeed THEN <<cur>> \o SplitLines(Tail(text), <<>>)
    ELSE SplitLines(Tail(text), Append(cur, Head(text)))

\* What the loop body makes of one line of text: blank, the whole text of record
\* r (the last record carries done = true), or text that serde_json rejects.
ParseLine(run, last) ==
    IF run = <<>> THEN Line("blank", None, FALSE)
    ELSE IF Len(run) = 2 /\ run[1].h = 1 /\ run[2] = Piece(run[1].r, 2)
    THEN Record(run[1].r, run[1].r = last)
    ELSE Line("text", None, FALSE)

\* The lines of a chunk of a body of `last` records.
LinesOf(text, last) ==
    LET runs == SplitLines(text, <<>>)
    IN [i \in 1..Len(runs) |-> ParseLine(runs[i], last)]

\* stream.next() yielded the next n pieces of the body as one chunk.
ProducerBytes(id, last, n) ==
    /\ prod[id].pc = "body"
    /\ prod[id].bytes + n <= Len(BodyText(1, last))
    /\ prod' = [prod EXCEPT ![id] =
                    [ChunkStep(@, cancelled[id],
                               LinesOf(SubSeq(BodyText(1, last), prod[id].bytes + 1,
                                              prod[id].bytes + n), last))
                        EXCEPT !.bytes = @ + n]]
    /\ sev' = NoCall
    /\ UNCHANGED <<now, cacheVars, rate_limiter, active_streams, next_stream_id, cancelled,
                   chan, rxDropped, issued, hist>>

\* stream.next() yielded None (the body ended): the task returns Ok.
ProducerEnd(id) ==
    /\ prod[id].pc = "body"
    /\ prod' = [prod EXCEPT ![id].pc = "exited", ![id].result = "Ok"]
    /\ sev' = NoCall
    /\ UNCHANGED <<now, cacheVars, rate_limiter, active_streams, next_stream_id, cancelled,
                   chan, rxDropped, issued, hist>>

\* stream.next() yielded an error: the task returns it, unless the flag is set.
ProducerFail(id) ==
    /\ prod[id].pc = "body"
    /\ prod' = [prod EXCEPT ![id].pc = "exited",
                            ![id].result = IF cancelled[id] THEN "Ok" ELSE "Http"]
    /\ sev' = NoCall
    /\ UNCHANGED <<now, cacheVars, rate_limiter, active_streams, next_stream_id, cancelled,
                   chan, rxDropped, issued, hist>>

TimeoutUntilResponse(id) ==
    /\ prod[id].pc = "request"
    /\ prod' = [prod EXCEPT ![id] = [RequestStep(@, "transport_error") EXCEPT !.timeouts = @ + 1]]
    /\ sev' = NoCall
    /\ UNCHANGED <<now, cacheVars, rate_limiter, active_streams, next_stream_id, cancelled,
                   chan, rxDropped, issued, hist>>
\* The total timeout the client was built with elapses: a pending send() yields
\* an error, or stream.next() yields an error and the task returns as in
\* ProducerFail.
ProducerTimeout(id) ==
    /\ prod[id].pc \in {"request", "body"}
    /\ prod' = [prod EXCEPT ![id] =
                    IF @.pc = "request"
                    THEN [RequestStep(@, "transport_error") EXCEPT !.timeouts = @ + 1]
                    ELSE [@ EXCEPT !.pc = "exited", !.timeouts = @ + 1,
                                   !.result = IF cancelled[id] THEN "Ok" ELSE "Http"]]
    /\ sev' = NoCall
    /\ UNCHANGED <<now, cacheVars, rate_limiter, active_streams, next_stream_id, cancelled,
                   chan, rxDropped, issued, hist>>

\* The caller drops the receiver of a session it holds.
DropReceiver(id) ==
    /\ prod[id].pc # "none"
    /\ ~rxDropped[id]
    /\ rxDropped' = [rxDropped EXCEPT ![id] = TRUE]
    /\ sev' = NoCall
    /\ UNCHANGED <<now, cacheVars, rate_limiter, active_streams, next_stream_id, cancelled,
                   prod, chan, issued, hist>>

\* Bodies of one-line chunks: a record, the terminal record.
SmallChunks == {<<Record("t", FALSE)>>, <<Record("end", TRUE)>>}

Producer(outcomes, chunks) ==
    \E id \in StreamIds :
        \/ \E o \in outcomes : ProducerRequest(id, o)
        \/ \E c \in chunks : ProducerChunk(id, c)
        \/ ProducerLine(id)
        \/ ProducerEnd(id)

Consumer == \E id \in StreamIds : DropReceiver(id)

MaxBodyChunks == 2   \* body chunks one response delivers when its lines are followed

\* The lines of a chunk by kind: a record, the record with done = true, a blank
\* line, a line that is not JSON, a JSON line without message.content.
ChunkShapes == {<<>>, <<"record">>, <<"done">>, <<"record", "record">>, <<"done", "record">>,
                <<"blank", "record">>, <<"text", "done">>, <<"nocontent", "record">>}

\* The chunk of that shape whose records carry as content their position in the
\* body, base lines having come before.
Numbered(shape, base) ==
    [i \in 1..Len(shape) |->
        IF shape[i] = "record" THEN Record(base + i, FALSE)
        ELSE IF shape[i] = "done" THEN Record(base + i, TRUE)
        ELSE IF shape[i] = "nocontent" THEN Line("json", None, FALSE)
        ELSE Line(shape[i], None, FALSE)]

\* The producer tasks against a backend whose requests yield one of outcomes and
\* whose body delivers chunks of the given shapes.
LiveProducer(outcomes, shapes) ==
    \E id \in StreamIds :
        \/ \E o \in outcomes : ProducerRequest(id, o)
        \/ \E sh \in shapes :
              ProducerChunkUpTo(id, Numbered(sh, Len(prod[id].received)), MaxBodyChunks)
        \/ ProducerLine(id)
        \/ ProducerEnd(id)
        \/ ProducerFail(id)

----------------------------------------------------------------------------
(* A RateLimiter used directly *)

LimiterCall(op) ==
    /\ Len(hist) < MaxHist
    /\ LET a == acquire(rate_limiter, now)
       IN /\ rate_limiter' = IF op = "acquire" THEN a.rl ELSE release(rate_limiter)
          /\ hist' = Append(hist, [op |-> op, ok |-> IF op = "acquire" THEN a.ok ELSE TRUE,
                                   count |-> rate_limiter.current_count,
                                   avail |-> refill_tokens(rate_limiter, now).tokens,
                                   at |-> now])
    /\ UNCHANGED <<now, cacheVars, active_streams, next_stream_id, cancelled, prod, chan,
                   rxDropped, issued, sev>>

Acquire == LimiterCall("acquire")
Release == LimiterCall("release")

----------------------------------------------------------------------------
(* The cache's state machine *)

ZeroStats == [hits |-> 0, misses |-> 0, total_entries |-> 0, memory_usage_bytes |-> 0,
              evictions |-> 0, disk_writes |-> 0, disk_reads |-> 0]

\* create_test_config() of the unit tests: the TTL is one second and persistence
\* is off.  BaseConfig varies in the capacity and the byte budget.
BaseConfig(capacity, max_bytes) ==
    [max_memory_entries |-> capacity, ttl |-> 1, enable_persistence |-> FALSE,
     cache_streaming |-> TRUE, cache_dir |-> TRUE, max_memory_bytes |-> max_bytes,
     memory_pressure_threshold |-> [num |-> 1, den |-> 2]]

\* Capacity 2, without a byte budget and with one that two entries exceed.
CacheConfigs == {BaseConfig(2, None), BaseConfig(2, Some(600))}

\* Capacities up to 3 without a byte budget.
LruConfigs == {BaseConfig(n, None) : n \in 1..3}

InitCacheWith(configs) ==
    /\ config \in configs
    /\ memory_cache = <<>>
    /\ stats = ZeroStats
    /\ disk = [h \in PromptHashes |-> None]
    /\ useOrder = <<>>
    /\ ev = NoEvent
    /\ calls = 0
    /\ returned = [some |-> 0, none |-> 0]
    /\ replay = <<>>

\* What a put or put_streaming call did besides its result: the keys left by the
\* memory-pressure step, in recency order, and the counters' growth.
Observed(m, failAt) ==
    LET p == handle_memory_pressure(Mach(memory_cache, stats, disk), config, now, failAt)
    IN [afterPressure |-> [i \in 1..Len(p.cache) |-> p.cache[i].key],
        pressureEvictions |-> p.stats.evictions - stats.evictions,
        pressureErr |-> p.err,
        preOrder |-> [i \in 1..Len(memory_cache) |-> memory_cache[i].key],
        dEvictions |-> m.stats.evictions - stats.evictions,
        dWrites |-> m.stats.disk_writes - stats.disk_writes,
        preUse |-> useOrder]

\* A caller builds the key from req (a prompt, a model and a parameter map) or
\* holds it already (req is None), and calls put.
PutCallBy(key, value, failAt, req) ==
    /\ calls < MaxCalls
    /\ calls' = calls + 1
    /\ LET m == put(Mach(memory_cache, stats, disk), key, value, TestMetadata, config, now, failAt)
       IN /\ memory_cache' = m.cache
          /\ stats' = m.stats
          /\ disk' = m.disk
          /\ useOrder' = NextUseOrder(useOrder, {key}, KeysOf(m.cache))
          /\ ev' = [op |-> "put", key |-> key, value |-> value, at |-> now,
                    ret |-> IF m.err THEN "Err" ELSE "Ok",
                    wasResident |-> Contains(memory_cache, key),
                    preKeys |-> KeysOf(memory_cache),
                    preLen |-> Len(memory_cache),
                    preUsage |-> estimate_memory_usage(memory_cache),
                    lru |-> IF useOrder = <<>> THEN None ELSE Some(LeastRecentlyUsed(useOrder)),
                    dHits |-> m.stats.hits - stats.hits,
                    dMisses |-> m.stats.misses - stats.misses,
                    did |-> Observed(m, failAt),
                    req |-> req]
    /\ UNCHANGED <<config, now, returned, replay, streamVars>>

PutCall(key, value, failAt) == PutCallBy(key, value, failAt, None)

\* A caller builds the key from req, or holds it already, and calls get.
GetCallBy(key, req) ==
    /\ calls < MaxCalls
    /\ calls' = calls + 1
    /\ LET r == get(memory_cache, stats, disk, key, config, now)
       IN /\ memory_cache' = r.cache
          /\ stats' = r.stats
          /\ useOrder' = NextUseOrder(useOrder, IF IsSome(r.ret) THEN {key} ELSE {}, KeysOf(r.cache))
          /\ returned' = IF IsSome(r.ret) THEN [returned EXCEPT !.some = @ + 1]
                         ELSE [returned EXCEPT !.none = @ + 1]
          /\ ev' = [op |-> "get", key |-> key, at |-> now, ret |-> r.ret,
                    wasResident |-> Contains(memory_cache, key),
                    resident |-> IF Contains(memory_cache, key)
                                 THEN Some([age |-> now - Peek(memory_cache, key).created_at,
                                            response |-> Peek(memory_cache, key).response])
                                 ELSE None,
                    prevPut |-> IF ev.op = "put" /\ ev.at = now
                                THEN Some([key |-> ev.key, value |-> ev.value, req |-> ev.req])
                                ELSE None,
                    dHits |-> r.stats.hits - stats.hits,
                    dMisses |-> r.stats.misses - stats.misses,
                    dReads |-> r.stats.disk_reads - stats.disk_reads,
                    file |-> disk[key.prompt_hash],
                    req |-> req]
    /\ UNCHANGED <<config, disk, now, replay, streamVars>>

GetCall(key) == GetCallBy(key, None)

Put(keys, values) == \E key \in keys, value \in values : PutCall(key, value, 0)
Get(keys) == \E key \in keys : GetCall(key)

\* A call of one of the synchronous maintenance operations, or of warm_cache: m is
\* what the operation makes of the cache, the counters and the directory.
MaintenanceCall(op, arg, m) ==
    /\ calls < MaxCalls
    /\ calls' = calls + 1
    /\ memory_cache' = m.cache
    /\ stats' = m.stats
    /\ disk' = m.disk
    /\ useOrder' = NextUseOrder(useOrder, {}, KeysOf(m.cache))
    /\ ev' = [op |-> op, arg |-> arg, at |-> now,
              preOrder |-> [i \in 1..Len(memory_cache) |-> memory_cache[i].key],
              preCache |-> memory_cache,
              dEvictions |-> m.stats.evictions - stats.evictions,
              dWrites |-> m.stats.disk_writes - stats.disk_writes,
              dHits |-> m.stats.hits - stats.hits,
              dMisses |-> m.stats.misses - stats.misses,
              dReads |-> m.stats.disk_reads - stats.disk_reads]
    /\ UNCHANGED <<config, now, returned, replay, streamVars>>

\* The target ratios callers pass to reduce_cache_size: 0.0, 0.5 and 0.75.
Ratios == {[num |-> 0, den |-> 1], [num |-> 1, den |-> 2], [num |-> 3, den |-> 4]}

ReduceCacheSize ==
    \E ratio \in Ratios :
        MaintenanceCall("reduce_cache_size", ratio,
                        reduce_cache_size(Mach(memory_cache, stats, disk), ratio))

InvalidateModel ==
    \E model \in Models :
        MaintenanceCall("invalidate_model", model,
                        invalidate_model(Mach(memory_cache, stats, disk), model))

\* invalidate_by_parameters with a model and one of the given parameter maps.
InvalidateByParametersOf(maps) ==
    \E model \in Models, parameters \in maps :
        MaintenanceCall("invalidate_by_parameters",
                        [model |-> model, hash |-> ParameterHashNew(parameters)],
                        invalidate_by_parameters(Mach(memory_cache, stats, disk), model,
                                                 ParameterHashNew(parameters)))

\* The same with the empty parameter map.
InvalidateByParameters == InvalidateByParametersOf({<<>>})

InvalidateExpired ==
    MaintenanceCall("invalidate_expired", None,
                    invalidate_expired(Mach(memory_cache, stats, disk), config, now))

Clear == MaintenanceCall("clear", None, clear(Mach(memory_cache, stats, disk)))

\* warm_cache with the keys of keyLists, in the order given.
WarmCache(keyLists) ==
    \E keys \in keyLists :
        MaintenanceCall("warm_cache", keys,
                        warm_cache(Mach(memory_cache, stats, disk), keys, config, now))

\* put when the file system may refuse the failAt-th write of the call.
PutFailing(keys, values) ==
    \E key \in keys, value \in values, failAt \in 0..3 : PutCall(key, value, failAt)

MaxReplays == 1   \* replay tasks spawned in one behaviour
MaxStreamCalls == 3   \* no put_streaming, get_streaming or create_cached_stream after this many calls

PutStreamingCall(key, tokens, failAt) ==
    /\ calls < MaxStreamCalls
    /\ calls' = calls + 1
    /\ LET m == put_streaming(Mach(memory_cache, stats, disk), key, tokens, TestMetadata,
                              config, now, failAt)
       IN /\ memory_cache' = m.cache
          /\ stats' = m.stats
          /\ disk' = m.disk
          /\ useOrder' = NextUseOrder(useOrder, IF Contains(m.cache, key) THEN {key} ELSE {},
                                      KeysOf(m.cache))
          /\ ev' = [op |-> "put_streaming", key |-> key, tokens |-> tokens, at |-> now,
                    ret |-> IF m.err THEN "Err" ELSE "Ok",
                    wasResident |-> Contains(memory_cache, key),
                    preLen |-> Len(memory_cache),
                    preUsage |-> estimate_memory_usage(memory_cache),
                    did |-> Observed(m, failAt)]
    /\ UNCHANGED <<config, now, returned, replay, streamVars>>

GetStreamingCall(key) ==
    /\ calls < MaxStreamCalls
    /\ calls' = calls + 1
    /\ LET r == get_streaming(memory_cache, stats, disk, key, config, now)
       IN /\ memory_cache' = r.cache
          /\ stats' = r.stats
          /\ useOrder' = NextUseOrder(useOrder,
                                      IF Contains(memory_cache, key) \/ Contains(r.cache, key)
                                      THEN {key} ELSE {},
                                      KeysOf(r.cache))
          /\ ev' = [op |-> "get_streaming", key |-> key, at |-> now, ret |-> r.ret,
                    prevPut |-> IF ev.op = "put_streaming" /\ ev.key = key
                                THEN Some(ev.tokens) ELSE None,
                    dHits |-> r.stats.hits - stats.hits,
                    dMisses |-> r.stats.misses - stats.misses]
    /\ UNCHANGED <<config, disk, now, returned, replay, streamVars>>

CreateCachedStreamCall(key, stream_id) ==
    /\ calls < MaxStreamCalls
    /\ calls' = calls + 1
    /\ LET r == create_cached_stream(memory_cache, stats, disk, key, stream_id, config, now)
       IN /\ IsSome(r.ret) => Len(replay) < MaxReplays
          /\ memory_cache' = r.cache
          /\ stats' = r.stats
          /\ replay' = IF IsSome(r.ret) THEN Append(replay, Unwrap(r.ret)) ELSE replay
          /\ useOrder' = NextUseOrder(useOrder,
                                      IF Contains(memory_cache, key) \/ Contains(r.cache, key)
                                      THEN {key} ELSE {},
                                      KeysOf(r.cache))
          /\ ev' = [op |-> "create_cached_stream", key |-> key, id |-> stream_id, at |-> now,
                    ret |-> IF IsSome(r.ret) THEN Some(Unwrap(r.ret).id) ELSE None,
                    task |-> Len(replay) + 1,
                    prev |-> IF ev.op = "put_streaming" /\ ev.key = key /\ ev.ret = "Ok"
                             THEN Some([tokens |-> ev.tokens, at |-> ev.at])
                             ELSE None]
    /\ UNCHANGED <<config, disk, now, returned, streamVars>>

\* A replay task runs one iteration of its loop.
ReplayStep(i) ==
    /\ replay[i].pc = "running"
    /\ replay' = [replay EXCEPT ![i] = ReplayIteration(@)]
    /\ UNCHANGED <<config, memory_cache, stats, disk, useOrder, ev, calls, returned, now,
                   streamVars>>

\* The caller cancels the token of a replayed session, or drops its receiver.
ReplayCancel(i) ==
    /\ ~replay[i].cancelled
    /\ replay' = [replay EXCEPT ![i].cancelled = TRUE]
    /\ UNCHANGED <<config, memory_cache, stats, disk, useOrder, ev, calls, returned, now,
                   streamVars>>

ReplayDrop(i) ==
    /\ ~replay[i].dropped
    /\ replay' = [replay EXCEPT ![i].dropped = TRUE]
    /\ UNCHANGED <<config, memory_cache, stats, disk, useOrder, ev, calls, returned, now,
                   streamVars>>

\* Token sequences to cache: none, one token, two tokens.
TokenLists == {<<>>, <<Token("t", TRUE)>>, <<Token("t", FALSE), Token("u", TRUE)>>}
\* The stream ids callers pass to create_cached_stream.
ReplayIds == {7, 8}
\* One key per prompt.
StreamKeys == {k \in AllKeys : k.model = "a"}

PutStreaming(keys, lists) ==
    \E key \in keys, tokens \in lists, failAt \in {0, 1} : PutStreamingCall(key, tokens, failAt)
GetStreaming(keys) == \E key \in keys : GetStreamingCall(key)
CreateCachedStream(keys, ids) ==
    \E key \in keys, id \in ids : CreateCachedStreamCall(key, id)
Replay == \E i \in 1..Len(replay) : ReplayStep(i)
ReplayCaller == \E i \in 1..Len(replay) : ReplayCancel(i) \/ ReplayDrop(i)

\* The key whose token sequences are replayed.
ReplayKeys == {k \in StreamKeys : k.prompt_hash = 11}

\* Token sequences are cached and replayed by a capacity-1 cache without the
\* durable tier.
InitReplay ==
    now = 0 /\ InitCacheWith({BaseConfig(1, None)}) /\ InitStreamWith({[max_concurrent |-> 1, rps |-> 10]})
NextReplay ==
    \/ PutStreaming(ReplayKeys, TokenLists)
    \/ CreateCachedStream(ReplayKeys, ReplayIds)
    \/ Replay
    \/ ReplayCaller
    \/ Tick
SpecReplay == InitReplay /\ [][NextReplay]_vars

\* The capacity-1 cache with the streaming cache turned off, with and without
\* the durable tier.
NoStreamingConfigs ==
    {[BaseConfig(1, None) EXCEPT !.cache_streaming = FALSE, !.enable_persistence = ep] :
        ep \in BOOLEAN}

\* put_streaming and get_streaming among put and get calls, the streaming cache
\* turned off.
InitNoStreaming ==
    now = 0 /\ InitCacheWith(NoStreamingConfigs) /\ InitStreamWith({[max_concurrent |-> 1, rps |-> 10]})
NextNoStreaming ==
    \/ PutStreaming(StreamKeys, TokenLists)
    \/ GetStreaming(StreamKeys)
    \/ Put(StreamKeys, {"x"})
    \/ Get(StreamKeys)
    \/ Tick
SpecNoStreaming == InitNoStreaming /\ [][NextNoStreaming]_vars

\* Any sequence of put and get calls while time passes.
InitCache == now = 0 /\ InitCacheWith(CacheConfigs) /\ InitStreamWith({[max_concurrent |-> 1, rps |-> 10]})
NextCache == Put(Keys, Values) \/ Get(Keys) \/ Tick
SpecCache == InitCache /\ [][NextCache]_vars

\* The same over four keys and one value, for capacities up to 3.
InitLru == now = 0 /\ InitCacheWith(LruConfigs) /\ InitStreamWith({[max_concurrent |-> 1, rps |-> 10]})
NextLru == Put(AllKeys, {"x"}) \/ Get(AllKeys) \/ Tick
SpecLru == InitLru /\ [][NextLru]_vars

\* Capacities 0 and 1 with the durable tier enabled, a TTL of zero and a TTL
\* longer than the time since the epoch.
MaintenanceConfigs ==
    {[BaseConfig(c.n, None) EXCEPT !.enable_persistence = TRUE, !.ttl = c.ttl] :
        c \in {[n |-> 0, ttl |-> 2 * EpochOffset], [n |-> 1, ttl |-> 2 * EpochOffset],
                [n |-> 1, ttl |-> 0]}}
\* One key per prompt, under different models.
MaintenanceKeys == {k \in AllKeys : (k.prompt_hash = 11) = (k.model = "a")}
MaxMaintenanceCalls == 3   \* CacheManager calls made in one behaviour of SpecMaintenance
MaintenanceStep(call) == calls < MaxMaintenanceCalls /\ call

\* Every operation of the CacheManager.
InitMaintenance ==
    now = 0 /\ InitCacheWith(MaintenanceConfigs) /\ InitStreamWith({[max_concurrent |-> 1, rps |-> 10]})
NextMaintenance ==
    \/ MaintenanceStep(Put(MaintenanceKeys, {"x"}))
    \/ MaintenanceStep(PutStreaming(MaintenanceKeys, {<<Token("t", TRUE)>>}))
    \/ MaintenanceStep(Get(MaintenanceKeys))
    \/ MaintenanceStep(GetStreaming(MaintenanceKeys))
    \/ MaintenanceStep(WarmCache({<<k1, k2>> \in MaintenanceKeys \X MaintenanceKeys :
                                      k1.prompt_hash <= k2.prompt_hash}))
    \/ MaintenanceStep(InvalidateModel)
    \/ MaintenanceStep(InvalidateByParameters)
    \/ MaintenanceStep(InvalidateExpired)
    \/ MaintenanceStep(ReduceCacheSize)
    \/ MaintenanceStep(Clear)
    \/ StreamTick
SpecMaintenance == InitMaintenance /\ [][NextMaintenance]_vars

\* Two keys of one prompt under different models.
SharedPromptKeys == {k \in AllKeys : k.prompt_hash = 11}
\* What the callers store under a key: the response and the token sequence
\* differ from key to key.
ResponseOf(key) == IF key.model = "a" THEN "x" ELSE "yyyy"
TokensOf(key) == <<Token(key.model, TRUE)>>
\* Capacity 1 without the durable tier, and with it and a TTL longer than the
\* time since the epoch.
IsolationConfigs ==
    {BaseConfig(1, None),
     [BaseConfig(1, None) EXCEPT !.enable_persistence = TRUE, !.ttl = 2 * EpochOffset]}

\* Callers that store under each key its own value, and look the keys up.
InitIsolation ==
    now = 0 /\ InitCacheWith(IsolationConfigs) /\ InitStreamWith({[max_concurrent |-> 1, rps |-> 10]})
NextIsolation ==
    \/ \E key \in SharedPromptKeys : PutCall(key, ResponseOf(key), 0)
    \/ \E key \in SharedPromptKeys : PutStreamingCall(key, TokensOf(key), 0)
    \/ Get(SharedPromptKeys)
    \/ GetStreaming(SharedPromptKeys)
SpecIsolation == InitIsolation /\ [][NextIsolation]_vars

\* The parameter maps of the keys invalidated: none, and temperature-like {a:1}.
InvalidatedMaps == {<<>>, <<[k |-> "a", v |-> 1]>>}
\* One prompt under model a with each of the maps, another under model bb.
InvalidatedKeys ==
    {CacheKeyNew("p", "a", parameters) : parameters \in InvalidatedMaps}
        \cup {CacheKeyNew("q", "bb", <<>>)}

\* Puts and the three invalidations while time passes, capacity 3.
InitInvalidate ==
    now = 0 /\ InitCacheWith({BaseConfig(3, None)}) /\ InitStreamWith({[max_concurrent |-> 1, rps |-> 10]})
NextInvalidate ==
    \/ Put(InvalidatedKeys, {"x"})
    \/ Get(InvalidatedKeys)
    \/ InvalidateModel
    \/ InvalidateByParametersOf(InvalidatedMaps)
    \/ InvalidateExpired
    \/ Tick
SpecInvalidate == InitInvalidate /\ [][NextInvalidate]_vars

\* Parameter maps over the names a and b with values 1 and 2, each in every
\* iteration order.
ParamMaps ==
    {<<>>} \cup {<<[k |-> n, v |-> x]>> : n \in {"a", "b"}, x \in {1, 2}}
           \cup {m \in {<<[k |-> n, v |-> x], [k |-> o, v |-> y]>> :
                             n \in {"a", "b"}, o \in {"a", "b"}, x \in {1, 2}, y \in {1, 2}} :
                     m[1].k # m[2].k}
Requests == [prompt : {"p"}, model : {"a"}, params : ParamMaps]

\* Callers that generate the key of each call from the prompt, the model and a
\* parameter map.
KeyedPut ==
    \E req \in Requests :
        PutCallBy(CacheKeyNew(req.prompt, req.model, req.params), "x", 0, Some(req))
KeyedGet ==
    \E req \in Requests :
        GetCallBy(CacheKeyNew(req.prompt, req.model, req.params), Some(req))
MaxKeyCalls == 3   \* CacheManager calls made in one behaviour of SpecKey
InitKey == now = 0 /\ InitCacheWith({BaseConfig(2, None)}) /\ InitStreamWith({[max_concurrent |-> 1, rps |-> 10]})
NextKey == (calls < MaxKeyCalls /\ KeyedPut) \/ (calls < MaxKeyCalls /\ KeyedGet)
SpecKey == InitKey /\ [][NextKey]_vars

\* The configurations of CacheConfigs with the durable tier enabled.
DurableConfigs == {[c EXCEPT !.enable_persistence = TRUE] : c \in CacheConfigs}

\* put (any one write of a call may fail), put_streaming, get and
\* reduce_cache_size over one key per prompt, the durable tier enabled.
InitDurable ==
    now = 0 /\ InitCacheWith(DurableConfigs) /\ InitStreamWith({[max_concurrent |-> 1, rps |-> 10]})
MaxDurableCalls == 3   \* CacheManager calls made in one behaviour of SpecDurable
DurableCall(call) == calls < MaxDurableCalls /\ call
NextDurable ==
    \/ DurableCall(PutFailing(StreamKeys, Values))
    \/ DurableCall(PutStreaming(StreamKeys, {<<Token("t", TRUE)>>}))
    \/ DurableCall(Get(StreamKeys))
    \/ DurableCall(ReduceCacheSize)
SpecDurable == InitDurable /\ [][NextDurable]_vars

\* Any interleaving of create_stream, cancel_stream, the producers and the callers.
InitStream == now = 0 /\ InitCacheWith({BaseConfig(2, None)}) /\ InitStreamWith(StreamConfigs)
NextStream ==
    \/ CreateStream
    \/ Cancel
    \/ Producer({"success", "client_error"}, {<<Record("end", TRUE)>>})
    \/ StreamTick
SpecStream == InitStream /\ [][NextStream]_vars

\* One session at one instant (one slot, one token): its producer, the caller
\* cancelling it or dropping the receiver.
InitProducer ==
    now = 0 /\ InitCacheWith({BaseConfig(2, None)}) /\ InitStreamWith({[max_concurrent |-> 1, rps |-> 4]})

\* The body of a response, read line by line.
BodyProducer == LiveProducer({"success", "client_error"}, ChunkShapes)
NextBody == CreateStream \/ Cancel \/ BodyProducer \/ Consumer
SpecBody == InitProducer /\ [][NextBody]_vars

\* The requests and their retries, with bodies of one record.  The runtime runs
\* a spawned task whenever it can take a step.
RetryProducer == LiveProducer(Outcomes, {<<"record">>, <<"done">>})
NextRetry == CreateStream \/ Cancel \/ RetryProducer \/ Consumer
FairSpecRetry == InitProducer /\ [][NextRetry]_vars /\ WF_vars(RetryProducer)

\* One session whose flag is set through the caller's token, through
\* cancel_stream, or both, while its producer runs.
CancelProducer == LiveProducer({"success"}, {<<"record", "done">>})
NextCancel == CreateStream \/ Cancel \/ CallerCancel \/ CancelProducer \/ Consumer
SpecCancel == InitProducer /\ [][NextCancel]_vars

\* What the backend does to a session: it answers the request, delivers a chunk
\* of the body, ends the body, or the connection fails.  Nothing obliges it to.
Backend ==
    \E id \in StreamIds :
        \/ \E o \in Outcomes : ProducerRequest(id, o)
        \/ \E sh \in {<<"record">>, <<"done">>} :
              ProducerChunkUpTo(id, Numbered(sh, Len(prod[id].received)), MaxBodyChunks)
        \/ ProducerEnd(id)
        \/ ProducerFail(id)
\* What the task does without the backend: it goes through the lines of the
\* chunk it holds, and the timer of its request elapses.
TaskStep == \E id \in StreamIds : ProducerLine(id) \/ ProducerTimeout(id)
\* Sessions against a backend that may fall silent at any point.  The runtime
\* runs the task and its timer whenever they can take a step.
NextSilent == CreateStream \/ Cancel \/ Backend \/ TaskStep \/ Consumer
FairSpecSilent == InitProducer /\ [][NextSilent]_vars /\ WF_vars(TaskStep)

MaxSplitRecords == 2   \* records of the body that is cut into chunks
\* A body of MaxSplitRecords records delivered in chunks cut anywhere.
SplitProducer ==
    \E id \in StreamIds :
        \/ ProducerRequest(id, "success")
        \/ \E n \in 1..Len(BodyText(1, MaxSplitRecords)) : ProducerBytes(id, MaxSplitRecords, n)
        \/ ProducerLine(id)
        \/ ProducerEnd(id)
NextSplit == CreateStream \/ Cancel \/ SplitProducer \/ Consumer
SpecSplit == InitProducer /\ [][NextSplit]_vars

\* A live session and a replayed one side by side: a backend that answers and
\* delivers records two to a chunk, and a cached sequence of two tokens.
OrderShapes == {<<"record", "record">>, <<"blank", "done">>}
OrderProducer == LiveProducer({"success"}, OrderShapes)
NextOrder ==
    \/ CreateStream
    \/ OrderProducer
    \/ PutStreaming(ReplayKeys, {<<Token("t", FALSE), Token("u", TRUE)>>})
    \/ CreateCachedStream(ReplayKeys, {7})
    \/ Replay
SpecOrder == InitProducer /\ [][NextOrder]_vars

\* Any interleaving of acquire, release and the passing of time on one limiter.
InitLimiter == now = 0 /\ InitCacheWith({BaseConfig(2, None)}) /\ InitStreamWith(LimiterConfigs)
NextLimiter == Acquire \/ Release \/ Tick
SpecLimiter == InitLimiter /\ [][NextLimiter]_vars

----------------------------------------------------------------------------
(* Claims about the cache *)

\* The estimate of the usage before the last put exceeded the pressure threshold.
PutUnderPressure ==
    /\ IsSome(config.max_memory_bytes)
    /\ ev.preUsage * config.memory_pressure_threshold.den
          > Unwrap(config.max_memory_bytes) * config.memory_pressure_threshold.num

\* The last call was a put of a key that was not resident, into a store holding
\* as many entries as its capacity, with no memory-pressure eviction.
PutIntoFullStore ==
    /\ ev.op = "put"
    /\ ~ev.wasResident
    /\ ev.preLen = config.max_memory_entries
    /\ ~PutUnderPressure

\* C1: a put of a non-resident key into a full store (no memory pressure) removes
\* exactly one entry, the one whose last use (put, or get that returned its value)
\* is the oldest, and leaves every other entry and the new key resident.
C1_LruEviction ==
    PutIntoFullStore =>
        /\ IsSome(ev.lru)
        /\ KeysOf(memory_cache) = (ev.preKeys \ {Unwrap(ev.lru)}) \cup {ev.key}
        /\ Cardinality(KeysOf(memory_cache)) = ev.preLen

\* C1 is reached: at capacity 3, after puts of three keys in the order k0, k1, k2,
\* the put of a fourth removed k0.
C1_Witness ==
    /\ PutIntoFullStore
    /\ config.max_memory_entries = 3
    /\ calls = 4
    /\ stats.hits = 0
    /\ Len(memory_cache) = 3
    /\ ev.preKeys \ KeysOf(memory_cache) = {Unwrap(ev.lru)}

\* C2: a get of a resident entry older than the TTL returns none, removes the
\* entry and counts one miss and no hit; a get of a resident entry not older than
\* the TTL returns its value and counts one hit.
C2_TtlExpiry ==
    (ev.op = "get" /\ IsSome(ev.resident)) =>
        IF Unwrap(ev.resident).age > config.ttl
        THEN /\ ev.ret = None
             /\ ~Contains(memory_cache, ev.key)
             /\ ev.dMisses = 1 /\ ev.dHits = 0
        ELSE /\ ev.ret = Some(Unwrap(ev.resident).response)
             /\ Contains(memory_cache, ev.key)
             /\ ev.dHits = 1 /\ ev.dMisses = 0

\* C2 is reached: an entry was read at the TTL (a hit) and then past it (a miss).
C2_Witness ==
    /\ ev.op = "get" /\ IsSome(ev.resident)
    /\ Unwrap(ev.resident).age > config.ttl
    /\ stats.hits = 1 /\ stats.misses = 1
    /\ ev.ret = None

\* C3: with persistence disabled every put returns Ok, and a get of the same key
\* issued at once after it returns the value just put.
C3_PutNeverFails ==
    ~config.enable_persistence =>
        /\ ev.op = "put" => ev.ret = "Ok"
        /\ (ev.op = "get" /\ IsSome(ev.prevPut) /\ Unwrap(ev.prevPut).key = ev.key)
               => ev.ret = Some(Unwrap(ev.prevPut).value)

\* C3 is reached: a put over a resident key, under memory pressure, with the
\* store at capacity, was followed by a get that returned the new value.
C3_Witness ==
    /\ ev.op = "get" /\ IsSome(ev.prevPut) /\ Unwrap(ev.prevPut).key = ev.key
    /\ IsSome(config.max_memory_bytes)
    /\ stats.evictions >= 2
    /\ IsSome(ev.resident) /\ ev.ret = Some("yyyy")
    /\ calls = 4

\* C4: every get changes exactly one of hits and misses, by one: hits when it
\* returns a value, misses when it returns none; put changes neither.  So hits is
\* the number of gets that returned a value and misses of those that returned none.
C4_HitMissAccounting ==
    /\ ev.op = "get" =>
          IF IsSome(ev.ret) THEN ev.dHits = 1 /\ ev.dMisses = 0
          ELSE ev.dHits = 0 /\ ev.dMisses = 1
    /\ ev.op = "put" => (ev.dHits = 0 /\ ev.dMisses = 0)
    /\ stats.hits = returned.some
    /\ stats.misses = returned.none

\* C4 is reached: gets returned a value twice and none once.
C4_Witness ==
    /\ ev.op = "get"
    /\ returned.some = 2 /\ returned.none = 1

----------------------------------------------------------------------------
(* Claims about the rate limiter *)

\* Entries i .. i+n of hist exist and are acquire calls.
AcquireRun(i, n) == i + n <= Len(hist) /\ \A j \in i..(i + n) : hist[j].op = "acquire"

\* From call i on, as many acquires succeed as max_concurrent, the next fails,
\* and an acquire that follows one release succeeds.
AdmissionPattern(i) ==
    LET M == rate_limiter.max_concurrent
    IN AcquireRun(i, M) =>
         /\ \A j \in i..(i + M - 1) : hist[j].ok
         /\ ~hist[i + M].ok
         /\ (/\ i + M + 2 <= Len(hist)
             /\ hist[i + M + 1].op = "release"
             /\ hist[i + M + 2].op = "acquire") => hist[i + M + 2].ok

\* C5 as stated: with no slot taken and more than max_concurrent tokens available,
\* max_concurrent acquires succeed, the next fails, and after one release an
\* acquire succeeds again.
C5_AdmissionMoreThanM ==
    \A i \in 1..Len(hist) :
        (hist[i].count = 0 /\ hist[i].avail > rate_limiter.max_concurrent * TokenUnit)
            => AdmissionPattern(i)

\* C5 as amended: the same with at least max_concurrent + 1 tokens available.
C5_AdmissionAtLeastMPlusOne ==
    \A i \in 1..Len(hist) :
        (hist[i].count = 0 /\ hist[i].avail >= (rate_limiter.max_concurrent + 1) * TokenUnit)
            => AdmissionPattern(i)

\* C5 is reached: max_concurrent = 2 with 3 tokens; acquire, acquire, acquire
\* (denied), release, acquire (admitted).
C5_Witness ==
    /\ rate_limiter.max_concurrent = 2
    /\ Len(hist) = 5
    /\ hist[1].avail >= 3 * TokenUnit
    /\ AcquireRun(1, 2)
    /\ ~hist[3].ok
    /\ hist[4].op = "release"
    /\ hist[5].op = "acquire" /\ hist[5].ok

\* C6: in every state of a limiter, 0 <= tokens <= max_tokens and
\* 0 <= current_count <= max_concurrent.
C6_LimiterBounds ==
    /\ 0 <= rate_limiter.tokens /\ rate_limiter.tokens <= rate_limiter.max_tokens
    /\ 0 <= rate_limiter.current_count
    /\ rate_limiter.current_count <= rate_limiter.max_concurrent

\* C6 is reached at its edges: a refill topped the bucket up to max_tokens, an
\* acquire was denied, and release was called with no slot taken.
C6_Witness ==
    /\ Len(hist) >= 3
    /\ hist[1].ok
    /\ \E j \in 1..Len(hist) : hist[j].op = "acquire" /\ ~hist[j].ok
    /\ hist[Len(hist)].op = "release" /\ hist[Len(hist)].count = 0
    /\ rate_limiter.last_refill > 0
    /\ rate_limiter.tokens = rate_limiter.max_tokens

----------------------------------------------------------------------------
(* Claims about the streaming manager *)

CreateDenied == sev.op = "create_stream" /\ sev.ret = "RateLimit"

\* What a denied create_stream leaves alone: no task, no registry entry, no id
\* consumed, no slot taken.
DeniedCreatesNothing ==
    /\ {i \in StreamIds : prod[i].pc # "none"} = sev.pre.started
    /\ active_streams = sev.pre.active
    /\ next_stream_id = sev.pre.next
    /\ issued # <<>> => issued[Len(issued)] < next_stream_id
    /\ rate_limiter.current_count = sev.pre.rl.current_count

\* C7 as stated: a denied create_stream creates nothing and leaves current_count
\* and the token count as they were.
C7_DeniedLeavesTokens ==
    CreateDenied => (DeniedCreatesNothing /\ rate_limiter.tokens = sev.pre.rl.tokens)

\* C7 as amended: a denied create_stream creates nothing, leaves current_count as
\* it was and spends no token; the token count becomes the refilled count
\* min(max_tokens, tokens + elapsed * refill_rate), never less than before.
C7_DeniedSpendsNothing ==
    CreateDenied =>
        /\ DeniedCreatesNothing
        /\ rate_limiter.tokens >= sev.pre.rl.tokens
        /\ LET elapsed == sev.at - sev.pre.rl.last_refill
               refilled == sev.pre.rl.tokens
                             + (elapsed * sev.pre.rl.refill_rate) \div TicksPerSecond
           IN rate_limiter.tokens
                = IF refilled < sev.pre.rl.max_tokens THEN refilled ELSE sev.pre.rl.max_tokens

\* C7 is reached: a create_stream was denied while a session was registered and
\* time had passed since the last refill.
C7_Witness ==
    /\ CreateDenied
    /\ sev.pre.active # {}
    /\ sev.at > sev.pre.rl.last_refill
    /\ rate_limiter.tokens > sev.pre.rl.tokens

\* C8: the ids create_stream has returned are strictly increasing in call order,
\* hence pairwise distinct and never reused, whatever was denied or cancelled.
C8_IdsIncrease ==
    \A i, j \in 1..Len(issued) : i < j => issued[i] < issued[j]

\* C8 is reached: a session was created after the one before it was cancelled.
C8_Witness ==
    /\ Len(issued) = 2
    /\ sev.op = "create_stream" /\ sev.ret = "Ok"
    /\ sev.pre.active = {}
    /\ cancelled[issued[1]]

CancelRegistered == sev.op = "cancel_stream" /\ sev.id \in sev.pre.active

\* C9: cancel_stream of a registered id returns Ok, sets that session's flag,
\* lowers current_count by one, removes that id alone from the registry and leaves
\* every other session's flag as it was.
C9_CancelRegistered ==
    CancelRegistered =>
        /\ sev.ret = "Ok"
        /\ cancelled[sev.id]
        /\ rate_limiter.current_count = sev.pre.rl.current_count - 1
        /\ active_streams = sev.pre.active \ {sev.id}
        /\ \A i \in StreamIds \ {sev.id} : cancelled[i] = sev.pre.cancelled[i]

\* C9 is reached: one of two registered sessions was cancelled.
C9_Witness ==
    /\ CancelRegistered
    /\ Cardinality(sev.pre.active) = 2
    /\ ~sev.pre.cancelled[sev.id]

\* C10: cancel_stream of an id that is unknown, already cancelled or whose
\* session already completed returns StreamNotFound and changes nothing.
C10_CancelFinishedChangesNothing ==
    (/\ sev.op = "cancel_stream"
     /\ \/ sev.id \notin sev.pre.started
        \/ sev.pre.cancelled[sev.id]
        \/ sev.id \in sev.pre.exited)
    => /\ sev.ret = "StreamNotFound"
       /\ active_streams = sev.pre.active
       /\ cancelled = sev.pre.cancelled
       /\ rate_limiter = sev.pre.rl

----------------------------------------------------------------------------
(* Claims about the producer task *)

\* A token marked complete was forwarded on the session's channel.
Completed(id) == \E i \in 1..Len(chan[id]) : chan[id][i].is_complete
\* The producer gave up: stream_chat returned an error.
Errored(id) == prod[id].result \in {"Connection", "Http"}
Terminal(id) == Completed(id) \/ cancelled[id] \/ Errored(id)

\* C11: every session that reaches a terminal state (completed, cancelled or
\* errored) eventually has its id removed from the registry and its slot
\* released.
C11_TerminalSessionsDeregistered ==
    \A id \in StreamIds :
        Terminal(id) ~> (/\ id \notin active_streams
                         /\ rate_limiter.current_count = Cardinality(active_streams))

\* C12: after a token marked complete was forwarded on a channel, no further
\* token is forwarded on it: a complete token is the last one of its channel.
C12_NothingAfterComplete ==
    \A id \in StreamIds :
        \A i \in 1..Len(chan[id]) : chan[id][i].is_complete => i = Len(chan[id])

\* C13: the flag is checked before each record is forwarded, so at most one token
\* is forwarded on a session's channel after its cancellation flag was set.
C13_AtMostOneAfterCancel ==
    \A id \in StreamIds : prod[id].lateSends <= 1

\* C15: once a send failed because the receiver was dropped, the producer
\* attempts no further send and processes no further line or chunk.
C15_StopsAfterSendFailure ==
    \A id \in StreamIds :
        prod[id].failedSends >= 1 =>
            /\ prod[id].failedSends = 1
            /\ prod[id].pc \in {"body", "exited"}

----------------------------------------------------------------------------
(* Claims about the requests and their retries *)

\* The tokens on the channel are those of the record lines, one for one.
DeliveredAll(ch, lines) ==
    /\ Len(ch) = Len(lines)
    /\ \A i \in 1..Len(ch) :
          /\ lines[i].kind = "json" /\ IsSome(lines[i].content)
          /\ ch[i] = [content |-> Unwrap(lines[i].content), is_complete |-> lines[i].done]

\* Two server errors, then success: the third response is read, and what it
\* delivered has reached a consumer that still holds the receiver.
ThirdResponseUsed(id) ==
    prod[id].outcomes = <<"server_error", "server_error", "success">> =>
        /\ prod[id].pc \in {"body", "lines", "exited"}
        /\ prod[id].result # "Connection"
        /\ (~rxDropped[id] /\ prod[id].pending = <<>>)
              => DeliveredAll(chan[id], prod[id].received)

\* C16 as stated: a producer makes at most 3 request attempts for its session,
\* and a third attempt that succeeds after two server errors is the response used.
C16_AtMostThreeRequests ==
    \A id \in StreamIds : Len(prod[id].outcomes) <= MaxRetries /\ ThirdResponseUsed(id)

\* C16 as amended: a producer makes at most 3 retries, that is at most 4 request
\* attempts, and a third attempt that succeeds after two server errors is the
\* response used.
C16_AtMostThreeRetries ==
    \A id \in StreamIds :
        /\ Len(prod[id].outcomes) <= MaxRetries + 1
        /\ prod[id].attempt <= MaxRetries
        /\ ThirdResponseUsed(id)

\* C16 is reached: two server errors, success, and a token of the third response
\* on the channel.
C16_Witness ==
    /\ prod[1].outcomes = <<"server_error", "server_error", "success">>
    /\ ~rxDropped[1]
    /\ Len(chan[1]) = 2

RECURSIVE Doubled(_, _)
Doubled(d, n) == IF n = 0 THEN d ELSE 2 * Doubled(d, n - 1)

\* C17: a client-error response is the last request of its session and makes
\* send_request_with_retry return a Connection error; every request followed by
\* another one failed with a server error or in transport; and the i-th retry
\* came after a delay of the base delay doubled i - 1 times.
C17_ClientErrorNotRetried ==
    \A id \in StreamIds :
        LET o == prod[id].outcomes
        IN /\ \A i \in 1..Len(o) :
                 o[i] = "client_error" =>
                     i = Len(o) /\ prod[id].pc = "exited" /\ prod[id].result = "Connection"
           /\ \A i \in 1..(Len(o) - 1) : o[i] \in {"server_error", "transport_error"}
           /\ Len(o) <= Len(prod[id].slept) + 1
           /\ \A i \in 1..Len(prod[id].slept) :
                 prod[id].slept[i] = Doubled(BaseDelayMs, i - 1)

\* C17 is reached: a client error on the second attempt, after one backoff.
C17_Witness ==
    /\ prod[1].outcomes = <<"server_error", "client_error">>
    /\ prod[1].slept = <<BaseDelayMs>>
    /\ prod[1].result = "Connection"

\* The initial response was not obtained: the last request failed and no other
\* follows.
RequestFailed(id) ==
    /\ prod[id].outcomes # <<>>
    /\ prod[id].outcomes[Len(prod[id].outcomes)] # "success"
    /\ prod[id].pc # "request"

\* The task has returned and dropped the sender it owned: the channel is closed.
SenderDropped(id) == prod[id].pc = "exited"

\* C18: when the initial response cannot be obtained the producer has returned
\* with no token sent, so the channel is closed and empty; and a producer waiting
\* for its response eventually obtains it or gives up.
C18_FailedRequestClosesChannel ==
    \A id \in StreamIds :
        /\ [](RequestFailed(id) => (SenderDropped(id) /\ chan[id] = <<>> /\ Errored(id)))
        /\ (prod[id].pc = "request") ~> (prod[id].pc # "request")

\* C18 is reached: the retries were exhausted.
C18_Witness ==
    /\ RequestFailed(1)
    /\ Len(prod[1].outcomes) = MaxRetries + 1
    /\ SenderDropped(1)

----------------------------------------------------------------------------
(* Claims about cached token sequences *)

IsPrefix(a, b) == Len(a) <= Len(b) /\ SubSeq(b, 1, Len(a)) = a

\* The last call was create_cached_stream(key, id), the call before it a
\* successful put_streaming of that key no longer ago than the TTL, with the
\* streaming cache enabled.
ReplayedAfterPut ==
    /\ ev.op = "create_cached_stream"
    /\ IsSome(ev.prev)
    /\ config.cache_streaming
    /\ ev.at - Unwrap(ev.prev).at <= config.ttl

\* C19: put_streaming(key, tokens) followed before the TTL by
\* create_cached_stream(key, id) yields a session with that id whose channel
\* carries the stored tokens in their order, and all of them once the task has
\* ended without the caller cancelling or dropping the receiver.
C19_ReplayRoundTrip ==
    ReplayedAfterPut =>
        /\ ev.ret = Some(ev.id)
        /\ ev.task <= Len(replay)
        /\ LET r == replay[ev.task]
               tokens == Unwrap(ev.prev).tokens
           IN /\ r.id = ev.id
              /\ IsPrefix(r.sent, tokens)
              /\ (r.pc = "exited" /\ ~r.cancelled /\ ~r.dropped) => r.sent = tokens

\* C19 is reached: two tokens stored, replayed a second later, the task ended.
C19_Witness ==
    /\ ReplayedAfterPut
    /\ ev.at > Unwrap(ev.prev).at
    /\ replay[ev.task].pc = "exited"
    /\ Len(replay[ev.task].sent) = 2
    /\ ~replay[ev.task].cancelled /\ ~replay[ev.task].dropped

\* The responses put_streaming would store for the token sequences.
JoinedResponses == {Join(tokens) : tokens \in TokenLists}

\* C20: with cache_streaming disabled, put_streaming returns Ok and leaves the
\* in-memory store, the durable tier and every counter as they were; get_streaming
\* finds nothing and get never returns the tokens' text.
C20_DisabledIsNoOp ==
    /\ [][(calls' # calls /\ ev'.op = "put_streaming" /\ ~config.cache_streaming)
            => (/\ ev'.ret = "Ok"
                /\ memory_cache' = memory_cache
                /\ disk' = disk
                /\ stats' = stats)]_vars
    /\ [](~config.cache_streaming =>
            /\ ev.op = "get_streaming" => ev.ret = None
            /\ (ev.op = "get" /\ IsSome(ev.ret)) => Unwrap(ev.ret) \notin JoinedResponses
            /\ \A i \in 1..Len(memory_cache) : ~memory_cache[i].entry.is_streaming)

\* C20 is reached: put_streaming of two tokens on a cache that holds an entry and
\* has the durable tier enabled, and get_streaming of that key right after.
C20_Witness ==
    /\ ~config.cache_streaming
    /\ config.enable_persistence
    /\ ev.op = "get_streaming"
    /\ IsSome(ev.prevPut) /\ Len(Unwrap(ev.prevPut)) = 2
    /\ memory_cache # <<>>
    /\ stats.disk_writes > 0

----------------------------------------------------------------------------
(* Claims about the order of delivery *)

\* The tokens of a live session, whose records carry their position in the body
\* as content: each token is the record at its position, and positions grow.
InBodyOrder(id) ==
    /\ \A i \in 1..Len(chan[id]) :
          /\ chan[id][i].content \in 1..Len(prod[id].received)
          /\ prod[id].received[chan[id][i].content]
                = Record(chan[id][i].content, chan[id][i].is_complete)
    /\ \A i, j \in 1..Len(chan[id]) : i < j => chan[id][i].content < chan[id][j].content

\* C14: what a session's channel carries is, at every moment, a subsequence of
\* the records the backend delivered, in their order and without repetition, and
\* it only grows at its end; a replayed session carries a prefix of the cached
\* tokens, and it too only grows at its end.
C14_GenerationOrder ==
    /\ [](\A id \in StreamIds : InBodyOrder(id))
    /\ [](\A i \in 1..Len(replay) : IsPrefix(replay[i].sent, replay[i].tokens))
    /\ [][/\ \A id \in StreamIds : IsPrefix(chan[id], chan'[id])
          /\ \A i \in 1..Len(replay) : IsPrefix(replay[i].sent, replay'[i].sent)]_vars

\* C14 is reached: a live session delivered records of two chunks, skipping a
\* line, and a replayed session delivered its two tokens.
C14_Witness ==
    /\ Len(chan[1]) >= 3
    /\ Len(prod[1].received) > Len(chan[1])
    /\ Len(replay) = 1 /\ Len(replay[1].sent) = 2

----------------------------------------------------------------------------
(* Claims about memory pressure, the durable tier and evictions *)

\* The last call went through the memory-pressure step: a put, or a put_streaming
\* with the streaming cache enabled.
InsertionCall ==
    /\ ev.op \in {"put", "put_streaming"}
    /\ ev.op = "put_streaming" => config.cache_streaming

\* The keys the memory-pressure step of the last call removed.
PressureVictims ==
    {ev.did.preOrder[i] : i \in 1..ev.preLen} \ {ev.did.afterPressure[i] : i \in 1..Len(ev.did.afterPressure)}

C22_FailedPutKeepsEntry ==
    (ev.op = "put" /\ ev.ret = "Err") =>
        /\ Contains(memory_cache, ev.key)
        /\ Peek(memory_cache, ev.key).response = ev.value

----------------------------------------------------------------------------
(* Claims about the cancellation flag *)

\* The step sets the flag of session id: cancel_stream of a registered id, or
\* cancel on the caller's token.
SetsFlag(id) ==
    /\ sev'.op \in {"cancel_stream", "token_cancel"}
    /\ sev'.id = id
    /\ sev'.op = "cancel_stream" => id \in active_streams

\* C23: a cancellation flag that is set stays set in every later state, whatever
\* the manager, the producer or the caller do; and setting a flag that is
\* already set returns without an error and leaves every flag as it was.
C23_CancellationOneWay ==
    [][\A id \in StreamIds :
          cancelled[id] =>
              /\ cancelled'[id]
              /\ SetsFlag(id) => (sev'.ret = "Ok" /\ cancelled' = cancelled)]_vars

\* C23 is reached: the caller cancelled through the token, the producer went on
\* to exit, and cancel_stream of the same session then returned Ok with the flag
\* still set.
C23_Witness ==
    /\ sev.op = "cancel_stream" /\ sev.ret = "Ok"
    /\ sev.pre.cancelled[sev.id]
    /\ cancelled[sev.id]
    /\ prod[sev.id].pc = "exited"

----------------------------------------------------------------------------
(* Claims about key generation *)

\* The key/value pairs of a parameter map.
PairsOf(parameters) == {parameters[i] : i \in 1..Len(parameters)}

\* The last call was a get by a caller that generated its key, right after a put
\* by a caller that generated its key from the same prompt, the same model and a
\* parameter map with the same pairs.
GetAfterPutOfSameMap ==
    /\ ev.op = "get" /\ IsSome(ev.req)
    /\ IsSome(ev.prevPut) /\ IsSome(Unwrap(ev.prevPut).req)
    /\ LET g == Unwrap(ev.req)
           q == Unwrap(Unwrap(ev.prevPut).req)
       IN g.prompt = q.prompt /\ g.model = q.model /\ PairsOf(g.params) = PairsOf(q.params)

\* C24: for the same prompt and model, parameter maps with the same key/value
\* pairs give equal keys whatever their iteration order, and a put under one is
\* a hit for a get under the other.
C24_KeyOrderIndependence ==
    GetAfterPutOfSameMap =>
        /\ ev.key = Unwrap(ev.prevPut).key
        /\ ev.ret = Some(Unwrap(ev.prevPut).value)
        /\ ev.dHits = 1 /\ ev.dMisses = 0

\* C24 is reached: a put under {a:1, b:2} iterated as a, b and a get under the
\* same map iterated as b, a.
C24_Witness ==
    /\ GetAfterPutOfSameMap
    /\ Unwrap(ev.req).params = <<[k |-> "b", v |-> 2], [k |-> "a", v |-> 1]>>
    /\ Unwrap(Unwrap(ev.prevPut).req).params = <<[k |-> "a", v |-> 1], [k |-> "b", v |-> 2]>>
    /\ IsSome(ev.ret)

----------------------------------------------------------------------------
(* Claims about the lines of a response body *)

\* A line that is a record: JSON with message.content.
WellFormed(line) == line.kind = "json" /\ IsSome(line.content)

\* The tokens of the well-formed records among lines, up to and including the
\* first one marked done.
RECURSIVE TokensUpToDone(_)
TokensUpToDone(lines) ==
    IF lines = <<>> THEN <<>>
    ELSE IF ~WellFormed(Head(lines)) THEN TokensUpToDone(Tail(lines))
    ELSE <<[content |-> Unwrap(Head(lines).content), is_complete |-> Head(lines).done]>>
         \o (IF Head(lines).done THEN <<>> ELSE TokensUpToDone(Tail(lines)))

\* The producer of session id has gone through every line it received, with the
\* session not cancelled and the receiver held.
LinesConsumed(id) ==
    /\ prod[id].pc \in {"body", "exited"}
    /\ ~cancelled[id] /\ ~rxDropped[id]

\* C25: lines that are not records (blank, not JSON, or without message.content)
\* are skipped and do not end the session: once the producer has gone through
\* the lines received, the channel starts with the tokens of all well-formed
\* records up to and including the first done record, in order.
C25_InvalidLinesSkipped ==
    \A id \in StreamIds :
        LinesConsumed(id) => IsPrefix(TokensUpToDone(prod[id].received), chan[id])

\* C25 is reached: a line without message.content, a record, a line that is not
\* JSON and the done record arrived in two chunks, and both records were
\* forwarded.
C25_Witness ==
    \E id \in StreamIds :
        /\ LinesConsumed(id)
        /\ Len(prod[id].received) = 4
        /\ prod[id].received[1] = Line("json", None, FALSE)
        /\ prod[id].received[3].kind = "text"
        /\ chan[id] = <<[content |-> 2, is_complete |-> FALSE], [content |-> 4, is_complete |-> TRUE]>>

\* The producer of session id has read the whole body and gone through its lines.
BodyConsumed(id) ==
    /\ LinesConsumed(id)
    /\ prod[id].bytes = Len(BodyText(1, MaxSplitRecords))

\* C26: however the body is cut into chunks, every record is forwarded as exactly
\* one token: once the whole body was read, the channel carries the tokens of
\* its records, one each, in order.
C26_ChunkingIndependence ==
    \A id \in StreamIds :
        BodyConsumed(id) =>
            chan[id] = [r \in 1..MaxSplitRecords |->
                          [content |-> r, is_complete |-> r = MaxSplitRecords]]

----------------------------------------------------------------------------
(* Claims about evictions and the durable tier *)

\* C27: a put whose memory-pressure step removed nothing increments the eviction
\* counter, by one, if and only if its key was not resident and the store was at
\* capacity; a put over a resident key leaves the counter unchanged and writes
\* nothing but the new entry to the durable tier.
C27_EvictionsCounted ==
    (ev.op = "put" /\ ev.ret = "Ok" /\ ev.did.pressureEvictions = 0) =>
        /\ ev.did.dEvictions
              = (IF ~ev.wasResident /\ ev.preLen = Capacity(config) THEN 1 ELSE 0)
        /\ ev.wasResident =>
              ev.did.dWrites = (IF config.enable_persistence THEN 1 ELSE 0)

Persisted(key, entry) ==
    /\ IsSome(disk[key.prompt_hash])
    /\ Unwrap(disk[key.prompt_hash]).response = entry.response

\* C29: with persistence enabled, every entry that reduce_cache_size removes from
\* memory has been written to the durable tier when it is dropped: the durable
\* tier holds each removed entry.
C29_EvictedArePersisted ==
    (ev.op = "reduce_cache_size" /\ config.enable_persistence) =>
        /\ \A i \in 1..Len(ev.preCache) :
              ~Contains(memory_cache, ev.preCache[i].key)
                  => Persisted(ev.preCache[i].key, ev.preCache[i].entry)

\* The last call was a get of a key that is not resident while the durable tier
\* holds the entry put under it, whose age since its put is below the TTL.
GetOfFreshDurableEntry ==
    /\ ev.op = "get" /\ config.enable_persistence
    /\ ~ev.wasResident
    /\ IsSome(ev.file)
    /\ ev.at - (Unwrap(ev.file).created_at - EpochOffset) < config.ttl

\* C30: a get of an entry that is no longer resident, whose file is in the
\* durable tier and whose age since its put is below the TTL, returns its value,
\* counts one hit and one disk read and no miss, and makes the entry resident.
C30_DurableHit ==
    GetOfFreshDurableEntry =>
        /\ ev.ret = Some(Unwrap(ev.file).response)
        /\ ev.dHits = 1 /\ ev.dReads = 1 /\ ev.dMisses = 0
        /\ Contains(memory_cache, ev.key)

----------------------------------------------------------------------------
(* Claims about the streaming lookup, the invalidations and the counters *)

\* C31: every get_streaming call records exactly one hit when it returns tokens
\* and exactly one miss when it returns none, never both, also when the key is
\* resident with an entry that is not a token sequence.
C31_StreamingAccounting ==
    ev.op = "get_streaming" =>
        IF IsSome(ev.ret) THEN ev.dHits = 1 /\ ev.dMisses = 0
        ELSE ev.dHits = 0 /\ ev.dMisses = 1

\* The entries of the store before the last call, without those that drop holds
\* of, in their order.
Remaining(drop(_)) == SelectSeq(ev.preCache, LAMBDA x : ~drop(x))

\* The last call changed none of hits, misses and evictions, and total_entries
\* is the number of resident entries.
CountersKept ==
    /\ ev.dHits = 0 /\ ev.dMisses = 0 /\ ev.dEvictions = 0
    /\ stats.total_entries = Len(memory_cache)

\* C32: invalidate_model(m) removes exactly the resident entries under model m,
\* invalidate_by_parameters(m, p) exactly those under model m with the parameter
\* hash of p; every other entry stays as it was; hits, misses and evictions are
\* unchanged and total_entries is the number of resident entries.
C32_InvalidationFrame ==
    /\ ev.op = "invalidate_model" =>
          LET drop(x) == x.key.model = ev.arg
          IN memory_cache = Remaining(drop) /\ CountersKept
    /\ ev.op = "invalidate_by_parameters" =>
          LET drop(x) == x.key.model = ev.arg.model /\ x.key.parameters = ev.arg.hash
          IN memory_cache = Remaining(drop) /\ CountersKept

\* C32 is reached: of two entries under model a, invalidate_by_parameters
\* removed the one with the parameters given and kept the other, and the entry
\* under model bb.
C32_Witness ==
    /\ ev.op = "invalidate_by_parameters"
    /\ Len(ev.preCache) = 3
    /\ Len(memory_cache) = 2
    /\ \E i, j \in 1..2 : memory_cache[i].key.model = "a" /\ memory_cache[j].key.model = "bb"

\* C33: invalidate_expired removes exactly the resident entries whose age exceeds
\* the TTL: afterwards no resident entry is expired, every other entry is still
\* resident as it was, and no miss or eviction is counted.
C33_ExpiredRemoved ==
    ev.op = "invalidate_expired" =>
        LET drop(x) == ev.at - x.entry.created_at > config.ttl
        IN /\ memory_cache = Remaining(drop)
           /\ \A i \in 1..Len(memory_cache) :
                 ev.at - memory_cache[i].entry.created_at <= config.ttl
           /\ CountersKept

\* C33 is reached: an entry older than the TTL was removed and an entry exactly
\* as old as the TTL stayed.
C33_Witness ==
    /\ ev.op = "invalidate_expired"
    /\ Len(ev.preCache) = 2 /\ Len(memory_cache) = 1
    /\ ev.at - memory_cache[1].entry.created_at = config.ttl

\* The keys resident before the last call, and the entry of such a key then.
KeysBefore == {ev.preCache[i].key : i \in 1..Len(ev.preCache)}
EntryBefore(key) == Peek(ev.preCache, key)

\* C34: warm_cache leaves every entry resident at the call resident and unchanged,
\* every key it loads adds one to disk_reads and is resident afterwards, hits and
\* misses are unchanged, and with persistence disabled the store is unchanged.
C34_WarmingFrame ==
    ev.op = "warm_cache" =>
        /\ \A key \in KeysBefore :
              Contains(memory_cache, key) /\ Peek(memory_cache, key) = EntryBefore(key)
        /\ ev.dReads = Cardinality(KeysOf(memory_cache) \ KeysBefore)
        /\ ev.dHits = 0 /\ ev.dMisses = 0
        /\ ~config.enable_persistence => memory_cache = ev.preCache

\* The event counters of CacheStats.
EventCounters == {"hits", "misses", "evictions", "disk_reads", "disk_writes"}

\* C35: no step of the CacheManager, clear, the invalidations and
\* reduce_cache_size included, decreases any of hits, misses, evictions,
\* disk_reads and disk_writes.
C35_CountersMonotonic ==
    [][\A c \in EventCounters : stats'[c] >= stats[c]]_vars

\* C35 is reached: clear emptied a store whose counters of hits, evictions and
\* disk writes were positive, and they still are.
C35_Witness ==
    /\ ev.op = "clear"
    /\ Len(ev.preCache) > 0 /\ memory_cache = <<>> /\ stats.total_entries = 0
    /\ stats.disk_writes > 0 /\ stats.evictions > 0

----------------------------------------------------------------------------
(* Claims about release, cancellation and the registry *)

\* The step is a direct release call on the limiter.
ReleaseStep == Len(hist') = Len(hist) + 1 /\ hist'[Len(hist')].op = "release"

\* The acquire calls among entries i..j of hist that succeeded.
Granted(i, j) == {k \in i..j : hist[k].op = "acquire" /\ hist[k].ok}

\* release changes nothing of the limiter but current_count, which it
\* decrements unless it is zero.
ReleaseOnlyFreesSlot ==
    [][ReleaseStep =>
          rate_limiter' = [rate_limiter EXCEPT
                              !.current_count = IF @ > 0 THEN @ - 1 ELSE 0]]_vars

\* Among calls made at one instant, beginning with one that found avail tokens,
\* at most floor(avail) acquire calls succeed, whatever releases lie between.
GrantsWithinTokens ==
    \A i \in 1..Len(hist) : \A j \in i..Len(hist) :
        hist[i].at = hist[j].at =>
            Cardinality(Granted(i, j)) * TokenUnit <= hist[i].avail

\* C36: release changes only current_concurrent, decrementing it unless it is
\* zero, and restores no token; while no time passes at most floor(available
\* tokens) acquire calls succeed however many release calls lie between them.
C36_ReleaseRestoresNoToken == ReleaseOnlyFreesSlot /\ [](GrantsWithinTokens)

\* C36 is reached: with two and a half tokens and one slot, at one instant,
\* acquire, release, acquire, release succeeded and the third acquire was refused
\* although the slot was free.
C36_Witness ==
    /\ Len(hist) = 5
    /\ hist[1].at = hist[5].at
    /\ hist[1].avail \div TokenUnit = 2
    /\ hist[1].ok /\ hist[2].op = "release" /\ hist[3].op = "acquire" /\ hist[3].ok
    /\ hist[4].op = "release" /\ hist[5].op = "acquire" /\ ~hist[5].ok /\ hist[5].count = 0
    /\ hist[1].op = "acquire"

\* cancel_stream(id) has just returned Ok.
CancelSucceeded(id) == sev.op = "cancel_stream" /\ sev.ret = "Ok" /\ sev.id = id

\* C37: after cancel_stream(id) succeeds the producer of the session eventually
\* returns, which drops its sender and closes the channel, whether or not the
\* backend delivers another chunk or ends the response.
C37_CancelledProducerTerminates ==
    \A id \in StreamIds : CancelSucceeded(id) ~> (prod[id].pc = "exited")

\* C37 is reached: a producer whose response arrived and whose body delivered
\* nothing has returned Ok after cancel_stream, on the timer of its request.
C37_Witness ==
    \E id \in StreamIds :
        /\ cancelled[id] /\ id \notin active_streams
        /\ prod[id].pc = "exited" /\ prod[id].result = "Ok"
        /\ prod[id].outcomes = <<"success">> /\ prod[id].chunks = 0
        /\ prod[id].timeouts = 1

\* C38: whatever create_stream and cancel_stream calls were made and whatever the
\* producers did, the limiter's current_count is the number of ids in the
\* registry, and neither exceeds max_concurrent.
C38_SlotsMatchRegistry ==
    /\ rate_limiter.current_count = Cardinality(active_streams)
    /\ Cardinality(active_streams) <= rate_limiter.max_concurrent

\* C38 is reached: after a session was cancelled and its producer returned,
\* another is registered whose producer has returned too, and a cancel_stream of
\* the id already cancelled was refused.
C38_Witness ==
    /\ sev.op = "cancel_stream" /\ sev.ret = "StreamNotFound" /\ cancelled[sev.id]
    /\ prod[sev.id].pc = "exited"
    /\ \E id \in active_streams : prod[id].pc = "exited"
    /\ rate_limiter.current_count = 1

\* C39: get(key) and get_streaming(key) return only what was put under that very
\* key: a response or a token sequence put under a key of the same prompt and
\* another model is never returned, with or without the durable tier.
C39_LookupsIsolatedByKey ==
    /\ (ev.op = "get" /\ IsSome(ev.ret)) =>
          Unwrap(ev.ret) \in {ResponseOf(ev.key), Join(TokensOf(ev.key))}
    /\ (ev.op = "get_streaming" /\ IsSome(ev.ret)) =>
          Unwrap(ev.ret) = TokensOf(ev.key)

\* C40: between two CacheManager calls total_entries is the number of entries
\* resident in the in-memory store, whichever call came last.
C40_TotalEntriesIsResidentCount == stats.total_entries = Len(memory_cache)

====
